---- MODULE Spec2Model ----
(***************************************************************************)
(* Model of the gosu-rag-context agent: the plan/step/outcome/decision     *)
(* loop (runAgent), the per-step tool loop (runStep), the evaluator, the   *)
(* finalizer and the multi-collection retrieval adapter (ChromaAdapter).   *)
(*                                                                         *)
(* Each component keeps its state in one record-valued variable; the       *)
(* handlers are written as operators from a component state (and the       *)
(* nondeterministic answer of the model provider or the vector store) to   *)
(* the next component state, and the actions apply them.                   *)
(***************************************************************************)
EXTENDS Integers, Sequences, FiniteSets, TLC

VARIABLES agent, run, search, recon, main, memory, adapter, structured, final,
          env

vars == <<agent, run, search, recon, main, memory, adapter, structured, final,
          env>>

(***************************************************************************)
(* Bounds of the model.                                                    *)
(***************************************************************************)
\* longest plan of the model, as planned and after any revision
MaxPlan == 2
\* number of revise decisions that carry new steps in one query
\* ("the evaluator returns revise only finitely many times")
MaxRevise == 1
\* config.maxTurns of the model (MAX_TURNS; any positive integer)
maxTurns == 2
\* most tool calls the model asks for within one step, over all its turns
MaxCalls == 3

\* config.topK of the model (TOP_K; any positive integer)
topK == 2
\* largest topK a caller asks for
MaxK == 3
\* most chunks one collection holds
MaxChunks == 2
\* most hits handed to the split-node reconstruction
MaxHits == 3

\* most chunks in the store of an adapter operation
MaxStored == 2
\* most saves of one conversation
MaxSaves == 3
\* largest HISTORY_RETENTION_SIZE (any positive integer)
MaxRetention == 3
MaxLoads == 2

\* PlanStepSchema.id / StepOutcomeSchema.stepId: positive integers
StepIds == {1, 2}

SeqsUpTo(S, n) == UNION {[1..k -> S] : k \in 0..n}

(***************************************************************************)
(* planning/schemas.ts                                                     *)
(***************************************************************************)
\* PlanStep (title and description are carried by the id in the model)
PlanStep == [id : StepIds]

\* Plan: z.array(PlanStepSchema).min(1)
PlanSchema == SeqsUpTo(PlanStep, MaxPlan) \ {<<>>}

\* StepOutcome (the summary the model writes is one text in the model)
StepOutcomeSchema ==
    [stepId : StepIds, status : {"completed", "failed"}, summary : {<<"found">>}]

\* newSteps: z.array(PlanStepSchema).nullable().optional()
NewSteps ==
    {[given |-> FALSE, steps |-> <<>>]}
        \cup {[given |-> TRUE, steps |-> s] : s \in SeqsUpTo(PlanStep, MaxPlan - 1)}

\* PlanDecision
PlanDecisionSchema ==
    [decision : {"continue", "finalize", "revise"}, newSteps : NewSteps]

NoDecision == [decision |-> "none", newSteps |-> [given |-> FALSE, steps |-> <<>>]]

(***************************************************************************)
(* runtime/evaluator.ts: evaluate                                          *)
(***************************************************************************)
\* the decision evaluate() returns when llm.structuredOutput throws
EvaluateFallback ==
    [decision |-> "continue", newSteps |-> [given |-> FALSE, steps |-> <<>>]]

\* every value evaluate() can return: the model's schema-valid decision, or
\* the fallback of the catch block
evaluate == PlanDecisionSchema \cup {EvaluateFallback}

(***************************************************************************)
(* runtime/evaluator.ts: runStep, the value it returns                     *)
(***************************************************************************)
\* what llm.structuredOutput can throw when the outcome is asked for
OutcomeErrors == {"Error: model unavailable", "Error: no valid JSON"}

\* FailedOutcome with the id of the plan's first step and a fixed summary
FailedOutcomeAnonymous(step, error) ==
    [stepId |-> 1, status |-> "failed", summary |-> <<"Failed to complete step">>]

\* the outcome of the catch block: the step's own id, status failed and
\* `Failed to complete step: ${error}` as the summary
FailedOutcome(step, error) ==
    [stepId |-> step.id, status |-> "failed",
     summary |-> <<"Failed to complete step: ", error>>]

\* every value runStep(step) can return: whatever schema-valid outcome the
\* model produced (returned as is), or the failed outcome of the catch block
RunStepOutcomes(step) ==
    StepOutcomeSchema \cup {FailedOutcome(step, e) : e \in OutcomeErrors}

(***************************************************************************)
(* runtime/agent.ts: runAgent (the orchestrator)                           *)
(*   pc: "plan" -> ("step" -> "evaluate")* -> "finalize" -> "done",        *)
(*   or "failed" when a call throws out of runAgent.                       *)
(*   cursor is the 0-based index of the step being, or last, executed.     *)
(*   executed, initialLen, added, revisions are history of the run.        *)
(***************************************************************************)
AgentInit ==
    [pc |-> "plan", plan |-> <<>>, cursor |-> 0, outcomes |-> <<>>,
     decision |-> NoDecision, finalizerCalls |-> 0,
     executed |-> <<>>, initialLen |-> 0, added |-> 0, revisions |-> 0]

\* planFromQuery returned plan p
Planned(a, p) ==
    [a EXCEPT !.pc = "step", !.plan = p, !.cursor = 0, !.initialLen = Len(p)]

\* a provider call threw out of runAgent
Failed(a) == [a EXCEPT !.pc = "failed", !.decision = NoDecision]

\* the loop body up to the evaluator: runStep on the step at the cursor
\* returned outcome o, which is appended to the outcome log
StepRan(a, o) ==
    [a EXCEPT !.pc = "evaluate",
              !.decision = NoDecision,
              !.outcomes = Append(@, o),
              !.executed = Append(@, a.cursor)]

\* RevisedPlan with the whole plan replaced by newSteps
RevisedPlanWhole(a, d) ==
    IF d.decision = "revise" /\ d.newSteps.given
    THEN d.newSteps.steps
    ELSE a.plan

\* the plan after decision d: revise replaces everything after the cursor
RevisedPlan(a, d) ==
    IF d.decision = "revise" /\ d.newSteps.given
    THEN SubSeq(a.plan, 1, a.cursor + 1) \o d.newSteps.steps
    ELSE a.plan

\* NextCursor with the cursor left on the executed step by a revise decision
NextCursorReviseStays(a, d) ==
    IF d.decision = "continue" THEN a.cursor + 1 ELSE a.cursor

\* NextCursor with the cursor left on the executed step by a continue decision
NextCursorContinueStays(a, d) ==
    IF d.decision = "revise" THEN a.cursor + 1 ELSE a.cursor

\* the cursor after decision d: continue and revise advance, never reset
NextCursor(a, d) ==
    IF d.decision = "finalize" THEN a.cursor ELSE a.cursor + 1

\* what the loop reads of decision d: newSteps only when it revises
Applied(d) ==
    IF d.decision = "revise" THEN d ELSE [d EXCEPT !.newSteps = NoDecision.newSteps]

\* Decided with the cursor put back on the first step by a revise decision
DecidedReviseRestarts(a, d) ==
    LET p == RevisedPlan(a, d)
        c == IF d.decision = "revise" THEN 0 ELSE NextCursor(a, d)
    IN  [a EXCEPT !.decision = Applied(d),
                  !.plan = p,
                  !.cursor = c,
                  !.pc = IF d.decision = "finalize" \/ c >= Len(p)
                         THEN "finalize" ELSE "step"]

\* the rest of the loop body: decision d of the evaluator is applied and the
\* loop condition is tested
Decided(a, d) ==
    LET p == RevisedPlan(a, d)
        c == NextCursor(a, d)
        grows == d.decision = "revise" /\ d.newSteps.given
                    /\ d.newSteps.steps # <<>>
    IN  [a EXCEPT !.decision = Applied(d),
                  !.plan = p,
                  !.cursor = c,
                  !.pc = IF d.decision = "finalize" \/ c >= Len(p)
                         THEN "finalize" ELSE "step",
                  !.added = IF grows THEN @ + Len(d.newSteps.steps) ELSE @,
                  !.revisions = IF grows THEN @ + 1 ELSE @]

\* finalize() returned the answer
Finalized(a) ==
    [a EXCEPT !.pc = "done", !.decision = NoDecision, !.finalizerCalls = @ + 1]

\* FinalizeFailed with the failed finalizer call made once more
FinalizeFailedRetried(a) ==
    [a EXCEPT !.pc = IF a.finalizerCalls = 0 THEN "finalize" ELSE "failed",
              !.decision = NoDecision,
              !.finalizerCalls = @ + 1]

\* finalize() threw: terminal for the query
FinalizeFailed(a) ==
    [a EXCEPT !.pc = "failed", !.decision = NoDecision, !.finalizerCalls = @ + 1]

(***************************************************************************)
(* Actions of one query.                                                   *)
(***************************************************************************)
PlanFromQuery ==
    /\ agent.pc = "plan"
    /\ \/ \E p \in PlanSchema : agent' = Planned(agent, p)
       \/ agent' = Failed(agent)
    /\ UNCHANGED <<run, search, recon, main, memory, adapter, structured, final, env>>

RunStep ==
    /\ agent.pc = "step"
    /\ agent.cursor < Len(agent.plan)
    /\ \/ \E o \in RunStepOutcomes(agent.plan[agent.cursor + 1]) :
             agent' = StepRan(agent, o)
       \/ agent' = Failed(agent)
    /\ UNCHANGED <<run, search, recon, main, memory, adapter, structured, final, env>>

\* d is a revise decision that adds steps to the plan
Grows(d) ==
    d.decision = "revise" /\ d.newSteps.given /\ d.newSteps.steps # <<>>

\* The run with its past dropped: the executed prefix of the plan, the outcome
\* log and the history of the run. The loop reads none of them, so the run
\* goes on as before; it is what lets a run of unboundedly many steps be
\* followed in finitely many states.
Forget(a) ==
    IF a.pc # "step" THEN a
    ELSE [a EXCEPT !.plan = SubSeq(a.plan, a.cursor + 1, Len(a.plan)),
                   !.cursor = 0,
                   !.outcomes = <<>>,
                   !.executed = <<>>,
                   !.initialLen = 0,
                   !.added = 0,
                   !.revisions = 0]

\* bounded: revise decisions that add steps are answered at most MaxRevise
\* times and the plan stays within MaxPlan steps; unbounded: the evaluator
\* answers whatever it likes, and the past of the run is dropped
Evaluate(bounded) ==
    /\ agent.pc = "evaluate"
    /\ \E d \in evaluate :
          /\ (bounded /\ Grows(d)) => agent.revisions < MaxRevise
          /\ bounded => Len(RevisedPlan(agent, d)) <= MaxPlan
          /\ agent' = IF bounded THEN Decided(agent, d)
                                 ELSE Forget(Decided(agent, d))
    /\ UNCHANGED <<run, search, recon, main, memory, adapter, structured, final, env>>

Finalize ==
    /\ agent.pc = "finalize"
    /\ \/ agent' = Finalized(agent)
       \/ agent' = FinalizeFailed(agent)
    /\ UNCHANGED <<run, search, recon, main, memory, adapter, structured, final, env>>

(***************************************************************************)
(* vectorstores/chroma/chromaAdapter.ts: reconstructSplitNodes             *)
(*   A hit of symbol search: chunkId and text are strings (sequences of    *)
(*   characters), className and methodName are empty when the chunk has    *)
(*   none.                                                                 *)
(***************************************************************************)
ClassNames == {<<>>, <<"F">>}
MethodNames == {<<>>, <<"m">>}
LineRanges == {<<1, 4>>, <<1, 9>>, <<5, 9>>}

\* the hits of the model: the i-th hit of a list is chunk i
HitOf(i, c, m, lines) ==
    [chunkId |-> <<i>>, text |-> <<i>>, path |-> <<"a">>, className |-> c,
     methodName |-> m, lineStart |-> lines[1], lineEnd |-> lines[2],
     collectionName |-> "code"]

\* the list of n hits with class names c, method names m and line ranges l
HitList(n, c, m, l) == [i \in 1..n |-> HitOf(i, c[i], m[i], l[i])]

\* GroupKey without the method name
GroupKeyWithoutMethod(hit) == hit.path \o <<"|">> \o hit.className

\* `${relativePath}|${className || ''}|${methodName || ''}`
GroupKey(hit) == hit.path \o <<"|">> \o hit.className \o <<"|">> \o hit.methodName

\* the keys of the groups map in insertion order: first occurrence of each
RECURSIVE GroupKeys(_)
GroupKeys(hits) ==
    IF hits = <<>> THEN <<>>
    ELSE LET front == GroupKeys(SubSeq(hits, 1, Len(hits) - 1))
             key == GroupKey(hits[Len(hits)])
         IN  IF \E i \in 1..Len(front) : front[i] = key
             THEN front ELSE Append(front, key)

\* chunks.sort((a, b) => a.metadata.lineStart - b.metadata.lineStart), stable
RECURSIVE InsertByLineStart(_, _)
InsertByLineStart(sorted, h) ==
    IF sorted = <<>> THEN <<h>>
    ELSE IF h.lineStart < Head(sorted).lineStart THEN <<h>> \o sorted
    ELSE <<Head(sorted)>> \o InsertByLineStart(Tail(sorted), h)

\* SortByLineStartSkipped: the chunks in the order they were pushed
SortByLineStartSkipped(chunks) == chunks

RECURSIVE SortByLineStart(_)
SortByLineStart(chunks) ==
    IF chunks = <<>> THEN <<>>
    ELSE InsertByLineStart(SortByLineStart(SubSeq(chunks, 1, Len(chunks) - 1)),
                           chunks[Len(chunks)])

\* Array.prototype.join(sep) of strings
RECURSIVE Join(_, _)
Join(strs, sep) ==
    IF strs = <<>> THEN <<>>
    ELSE IF Len(strs) = 1 THEN strs[1]
    ELSE strs[1] \o sep \o Join(Tail(strs), sep)

MinOf(S) == CHOOSE x \in S : \A y \in S : x <= y
MaxOf(S) == CHOOSE x \in S : \A y \in S : x >= y

\* Merged with the merged metadata rebuilt without the method name
MergedWithoutMethod(chunks) ==
    [chunks[1] EXCEPT
        !.chunkId = Join([i \in 1..Len(chunks) |-> chunks[i].chunkId], <<"+">>),
        !.text = Join([i \in 1..Len(chunks) |-> chunks[i].text], <<"\n">>),
        !.methodName = <<>>,
        !.lineStart = MinOf({chunks[i].lineStart : i \in 1..Len(chunks)}),
        !.lineEnd = MaxOf({chunks[i].lineEnd : i \in 1..Len(chunks)})]

\* the single hit a group of several chunks, sorted by line start, becomes
Merged(chunks) ==
    [chunks[1] EXCEPT
        !.chunkId = Join([i \in 1..Len(chunks) |-> chunks[i].chunkId], <<"+">>),
        !.text = Join([i \in 1..Len(chunks) |-> chunks[i].text], <<"\n">>),
        !.lineStart = MinOf({chunks[i].lineStart : i \in 1..Len(chunks)}),
        !.lineEnd = MaxOf({chunks[i].lineEnd : i \in 1..Len(chunks)})]

\* reconstructSplitNodesSkipped: the hits as they were gathered
reconstructSplitNodesSkipped(hits) == hits

reconstructSplitNodes(hits) ==
    LET keys == GroupKeys(hits)
    IN  [g \in 1..Len(keys) |->
            LET chunks == SelectSeq(hits, LAMBDA h : GroupKey(h) = keys[g])
            IN  IF Len(chunks) = 1 THEN chunks[1]
                ELSE Merged(SortByLineStart(chunks))]

\* pc: "idle", "hits" (a hit list is at hand), "once" (reconstructed),
\* "twice" (the reconstructed list reconstructed again)
ReconIdle == [pc |-> "idle", hits |-> <<>>, once |-> <<>>, twice |-> <<>>]

Reconstruct ==
    /\ recon.pc = "hits"
    /\ recon' = [recon EXCEPT !.pc = "once",
                              !.once = reconstructSplitNodes(recon.hits)]
    /\ UNCHANGED <<agent, run, search, main, memory, adapter, structured, final, env>>

ReconstructAgain ==
    /\ recon.pc = "once"
    /\ recon' = [recon EXCEPT !.pc = "twice",
                              !.twice = reconstructSplitNodes(recon.once)]
    /\ UNCHANGED <<agent, run, search, main, memory, adapter, structured, final, env>>

(***************************************************************************)
(* runtime/evaluator.ts: runStep, the tool execution loop                  *)
(*   pc: "chat" (the loop test passed, llm.chat is awaited), "tools" (the  *)
(*   for loop over response.tool_calls, at index i), "summarize" (the      *)
(*   structured outcome is awaited), "returned", "threw"; "idle" when no   *)
(*   step is run.  chatCalls and toolCalls are history of the run.         *)
(***************************************************************************)
\* what a tool call of a completion can be: a registered tool with arguments
\* its schema accepts, an unregistered name, arguments that are no JSON,
\* arguments the schema rejects, or an empty entry of the array
ToolCallKinds == {"valid", "unknown", "badjson", "badargs", "null"}

\* the message text of the error each failing invocation throws
ToolNotFound == "Tool not found"
SyntaxError == "SyntaxError"
ValidationFailed == "Tool parameter validation failed"
ExecuteFailed == "execute failed"

\* buildToolResultMessageUnattributed: the result without its tool_call_id
buildToolResultMessageUnattributed(id, payload) ==
    [role |-> "tool", id |-> <<0, 0>>, text |-> payload, tool_calls |-> <<>>]

\* buildToolResultMessage(toolCall.id, name, payload)
buildToolResultMessage(id, payload) ==
    [role |-> "tool", id |-> id, text |-> payload, tool_calls |-> <<>>]

Seed(role) == [role |-> role, id |-> <<0, 0>>, text |-> "", tool_calls |-> <<>>]

RunInit ==
    [pc |-> "idle", step |-> [id |-> 1], turnCount |-> 0, pending |-> <<>>,
     i |-> 0, messages |-> <<>>,
     outcome |-> [stepId |-> 0, status |-> "none", summary |-> <<>>],
     thrown |-> "", chatCalls |-> 0, toolCalls |-> 0]

\* LoopTest with the bound included
LoopTestInclusive(r) == IF r.turnCount <= maxTurns THEN "chat" ELSE "summarize"

\* while (turnCount < maxTurns)
LoopTest(r) == IF r.turnCount < maxTurns THEN "chat" ELSE "summarize"

\* runStep(step) up to its first loop test: the three seed messages
Started(step) ==
    LET r == [RunInit EXCEPT
                !.step = step,
                !.messages = <<Seed("system"), Seed("user"), Seed("user")>>]
    IN  [r EXCEPT !.pc = LoopTest(r)]

\* the tool calls of a completion whose entries are of kinds ks
ToolCalls(r, ks) ==
    [j \in 1..Len(ks) |-> [id |-> <<r.turnCount + 1, j>>, kind |-> ks[j]]]

\* turnCount++ and llm.chat returned a completion with tool calls of kinds ks:
\* none ends the loop, otherwise the assistant message is pushed
Completed(r, ks) ==
    LET t == [r EXCEPT !.turnCount = @ + 1, !.chatCalls = @ + 1,
                       !.toolCalls = @ + Len(ks)]
    IN  IF ks = <<>>
        THEN [t EXCEPT !.pc = "summarize"]
        ELSE [t EXCEPT !.pc = "tools",
                       !.pending = ToolCalls(r, ks),
                       !.i = 1,
                       !.messages =
                          Append(@, [role |-> "assistant",
                                     id |-> <<r.turnCount + 1, 0>>,
                                     text |-> "",
                                     tool_calls |-> ToolCalls(r, ks)])]

\* ChatThrew with the error caught and turned into the failed outcome
ChatThrewCaught(r) ==
    [r EXCEPT !.pc = "returned", !.turnCount = @ + 1, !.chatCalls = @ + 1,
              !.thrown = "Error",
              !.outcome = [stepId |-> r.step.id, status |-> "failed",
                           summary |-> <<"Failed to complete step">>]]

\* turnCount++ and llm.chat threw: nothing in runStep catches it
ChatThrew(r) ==
    [r EXCEPT !.pc = "threw", !.turnCount = @ + 1, !.chatCalls = @ + 1]

\* the payloads one invocation can end with: try { getTool, JSON.parse,
\* tool.parse, tool.execute, push result } catch { push { error } }
ToolPayloads(call) ==
    CASE call.kind = "unknown" -> {ToolNotFound}
      [] call.kind = "badjson" -> {SyntaxError}
      [] call.kind = "badargs" -> {ValidationFailed}
      [] call.kind = "valid" -> {"result", ExecuteFailed}
      [] OTHER -> {}

\* the for loop moves to the next tool call, or the while loop to its test
Advanced(r) ==
    IF r.i < Len(r.pending)
    THEN [r EXCEPT !.i = @ + 1]
    ELSE [r EXCEPT !.pc = LoopTest(r), !.pending = <<>>, !.i = 0]

\* Invoked with the registry lookup outside the try block
InvokedLookupUnguarded(r, payload) ==
    IF payload = ToolNotFound
    THEN [r EXCEPT !.pc = "threw"]
    ELSE Advanced([r EXCEPT !.messages =
            Append(@, buildToolResultMessage(r.pending[r.i].id, payload))])

\* one iteration of the for loop on tool call r.pending[r.i], which ended
\* with the given payload
Invoked(r, payload) ==
    Advanced([r EXCEPT !.messages =
                Append(@, buildToolResultMessage(r.pending[r.i].id, payload))])

\* if (!toolCall) continue
Skipped(r) == Advanced(r)

\* llm.structuredOutput returned outcome o, which runStep returns as it is
Summarized(r, o) == [r EXCEPT !.pc = "returned", !.outcome = o]

\* llm.structuredOutput threw error: runStep returns the failed outcome of
\* its catch block (thrown is history: what was caught)
SummarizeThrew(r, error) ==
    [r EXCEPT !.pc = "returned", !.thrown = error,
              !.outcome = FailedOutcome(r.step, error)]

(***************************************************************************)
(* Actions of one step.                                                    *)
(***************************************************************************)
Chat ==
    /\ run.pc = "chat"
    /\ \/ \E ks \in SeqsUpTo(ToolCallKinds, MaxCalls - run.toolCalls) :
             run' = Completed(run, ks)
       \/ run' = ChatThrew(run)
    /\ UNCHANGED <<agent, search, recon, main, memory, adapter, structured, final, env>>

ExecuteTool ==
    /\ run.pc = "tools"
    /\ \/ /\ run.pending[run.i].kind = "null"
          /\ run' = Skipped(run)
       \/ \E payload \in ToolPayloads(run.pending[run.i]) :
             run' = Invoked(run, payload)
    /\ UNCHANGED <<agent, search, recon, main, memory, adapter, structured, final, env>>

Summarize ==
    /\ run.pc = "summarize"
    /\ \/ \E o \in StepOutcomeSchema : run' = Summarized(run, o)
       \/ \E e \in OutcomeErrors : run' = SummarizeThrew(run, e)
    /\ UNCHANGED <<agent, search, recon, main, memory, adapter, structured, final, env>>

(***************************************************************************)
(* vectorstores/chroma/chromaAdapter.ts: semanticSearch                    *)
(*   A collection is the list of its chunks as the backend ranks them for  *)
(*   the query, nearest first. Strings are sequences of characters.        *)
(***************************************************************************)
\* this.collections, in the order connect() filled the map
CollectionNames == <<"code", "docs">>

Distances == {0, 1}

Paths == {<<"a">>, <<"a", "b">>}

\* the metadata a filter can ask for: module and category (of a document
\* chunk), package, className, chunkType and language
Metadata ==
    [module : {"policycenter", "billingcenter"},
     category : {"Cloud API", "Configuration"},
     package : {"gw.a", "gw.b"},
     className : {"Foo", "Bar"},
     chunkType : {"class", "method"},
     language : {"gosu", "gosu_template"}]

GosuClass ==
    [module |-> "policycenter", category |-> "Cloud API", package |-> "gw.a",
     className |-> "Foo", chunkType |-> "class", language |-> "gosu"]

\* a stored chunk: its distance to the query, its metadata.relativePath and
\* the rest of its metadata
Chunk == [dist : Distances, path : Paths, metadata : {GosuClass}]

\* the chunks of every metadata, at one distance and under one path
TaggedChunk == [dist : {0}, path : {<<"a", "b">>}, metadata : Metadata]

\* the chunk lists a backend can return: non-decreasing distance
Ranked ==
    {c \in SeqsUpTo(Chunk, MaxChunks) :
        \A i \in 1..(Len(c) - 1) : c[i].dist <= c[i + 1].dist}

\* QueryFilter with every field it can carry, empty when not given
QueryFilter ==
    [collectionName : {"", "code", "docs"},
     relativePath : {<<>>, <<"b">>},
     module : {"", "policycenter"},
     category : {"", "Cloud API"},
     package : {"", "gw.a"},
     className : {"", "Foo"},
     chunkType : {"", "class"},
     language : {"", "gosu"}]

NoFilter ==
    [collectionName |-> "", relativePath |-> <<>>, module |-> "",
     category |-> "", package |-> "", className |-> "", chunkType |-> "",
     language |-> ""]

\* QueryFilter: collectionName and relativePath, empty when not given
Filters ==
    {[NoFilter EXCEPT !.collectionName = c, !.relativePath = p] :
        c \in {"", "code", "docs"}, p \in {<<>>, <<"b">>}}

\* buildWhereClause(filter): package, className, chunkType and language, each
\* when given ("": no such key)
buildWhereClause(filter) ==
    [package |-> filter.package, className |-> filter.className,
     chunkType |-> filter.chunkType, language |-> filter.language]

\* the chunks of a collection that a where clause of equalities selects
Selected(chunks, where) ==
    SelectSeq(chunks, LAMBDA c :
        /\ where.package # "" => c.metadata.package = where.package
        /\ where.className # "" => c.metadata.className = where.className
        /\ where.chunkType # "" => c.metadata.chunkType = where.chunkType
        /\ where.language # "" => c.metadata.language = where.language)

\* String.prototype.includes
Includes(str, part) ==
    \E i \in 0..(Len(str) - Len(part)) :
        SubSeq(str, i + 1, i + Len(part)) = part

\* the similarity score 1 / (1 + distance), as numerator and denominator
Score(distance) == <<1, 1 + distance>>

\* s - t > 0 for two scores
ScoreAbove(s, t) == s[1] * t[2] > t[1] * s[2]

\* EffectiveK with the caller's topK ignored
EffectiveKConfigured(requested) == topK

\* const k = topK || this.config.topK (0: no topK given)
EffectiveK(requested) == IF requested # 0 THEN requested ELSE topK

\* collection.query({ nResults: k }): the k nearest chunks, nearest first
Query(chunks, k) == SubSeq(chunks, 1, IF k < Len(chunks) THEN k ELSE Len(chunks))

\* the hits one collection contributes: the transformed results that pass the
\* client-side relativePath filter, in the backend's order
RECURSIVE Transform(_, _, _, _)
Transform(name, results, filter, i) ==
    IF i > Len(results) THEN <<>>
    ELSE LET hit == [chunkId |-> <<name, i>>,
                     score |-> Score(results[i].dist),
                     distance |-> results[i].dist,
                     path |-> results[i].path,
                     metadata |-> results[i].metadata,
                     collectionName |-> name]
         IN  IF filter.relativePath # <<>>
                  /\ ~Includes(results[i].path, filter.relativePath)
             THEN Transform(name, results, filter, i + 1)
             ELSE <<hit>> \o Transform(name, results, filter, i + 1)

\* one pass of the for loop over this.collections: nothing when the filter
\* names another collection or when the backend call throws
Contribution(name, store, k, filter, failing) ==
    IF filter.collectionName # "" /\ filter.collectionName # name THEN <<>>
    ELSE IF name \in failing THEN <<>>
    ELSE Transform(name, Query(Selected(store[name], buildWhereClause(filter)), k),
                   filter, 1)

RECURSIVE AllHits(_, _, _, _, _)
AllHits(names, store, k, filter, failing) ==
    IF names = <<>> THEN <<>>
    ELSE Contribution(Head(names), store, k, filter, failing)
            \o AllHits(Tail(names), store, k, filter, failing)

\* where the stable sort by descending score puts hit h among sorted hits
RECURSIVE InsertByScore(_, _)
InsertByScore(sorted, h) ==
    IF sorted = <<>> THEN <<h>>
    ELSE IF ScoreAbove(h.score, Head(sorted).score) THEN <<h>> \o sorted
    ELSE <<Head(sorted)>> \o InsertByScore(Tail(sorted), h)

\* SortByScore with the comparator reversed (a.score - b.score)
RECURSIVE InsertByScoreAscending(_, _)
InsertByScoreAscending(sorted, h) ==
    IF sorted = <<>> THEN <<h>>
    ELSE IF ScoreAbove(Head(sorted).score, h.score) THEN <<h>> \o sorted
    ELSE <<Head(sorted)>> \o InsertByScoreAscending(Tail(sorted), h)

RECURSIVE SortByScoreAscending(_)
SortByScoreAscending(hits) ==
    IF hits = <<>> THEN <<>>
    ELSE InsertByScoreAscending(
            SortByScoreAscending(SubSeq(hits, 1, Len(hits) - 1)),
            hits[Len(hits)])

\* allHits.sort((a, b) => (b.score || 0) - (a.score || 0)), a stable sort
RECURSIVE SortByScore(_)
SortByScore(hits) ==
    IF hits = <<>> THEN <<>>
    ELSE InsertByScore(SortByScore(SubSeq(hits, 1, Len(hits) - 1)),
                       hits[Len(hits)])

\* Array.prototype.slice(0, k)
Slice(hits, k) == SubSeq(hits, 1, IF k < Len(hits) THEN k ELSE Len(hits))

\* semanticSearchUntruncated: semanticSearch without the final slice, so
\* that only each collection's own query is cut to k
semanticSearchUntruncated(names, store, requested, filter, failing) ==
    SortByScore(AllHits(names, store, EffectiveK(requested), filter, failing))

\* semanticSearch(query, requested, filter) over the collections `names`
semanticSearch(names, store, requested, filter, failing) ==
    LET k == EffectiveK(requested)
    IN  Slice(SortByScore(AllHits(names, store, k, filter, failing)), k)

\* pc: "idle" (no search), "call" (a search is asked for), "searched" (it
\* returned result), "compared" (the same search was run with the collection
\* `removed` taken out of the configuration and returned reduced)
SearchIdle ==
    [pc |-> "idle", store |-> [n \in {"code", "docs"} |-> <<>>],
     requested |-> 0, filter |-> NoFilter,
     failing |-> {}, result |-> <<>>, removed |-> "", reduced |-> <<>>]

Searched(s) ==
    [s EXCEPT !.pc = "searched",
              !.result = semanticSearch(CollectionNames, s.store, s.requested,
                                        s.filter, s.failing)]

\* the configured collections without collection c
Without(c) == SelectSeq(CollectionNames, LAMBDA n : n # c)

SearchedWithout(s, c) ==
    [s EXCEPT !.pc = "compared",
              !.removed = c,
              !.reduced = semanticSearch(Without(c), s.store, s.requested,
                                         s.filter, s.failing)]

SemanticSearch ==
    /\ search.pc = "call"
    /\ search' = Searched(search)
    /\ UNCHANGED <<agent, run, recon, main, memory, adapter, structured, final, env>>

SemanticSearchWithout ==
    /\ search.pc = "searched"
    /\ \E c \in {"code", "docs"} : search' = SearchedWithout(search, c)
    /\ UNCHANGED <<agent, run, recon, main, memory, adapter, structured, final, env>>

(***************************************************************************)
(* vectorstores/chroma/chromaAdapter.ts: searchBySymbolName, regexSearch,  *)
(* getFileByPath                                                           *)
(*   The store lists the chunks of all collections in the order their      *)
(*   backend returns them; a chunk's id is its place in the store.         *)
(***************************************************************************)
\* the text of a chunk
Documents == {<<"F">>, <<"f">>}

\* a stored chunk: document and metadata
StoredChunk ==
    [collectionName : {"code", "docs"}, doc : Documents, path : {<<"a">>, <<"b">>},
     className : ClassNames, methodName : MethodNames,
     lines : {<<1, 4>>, <<5, 9>>}]

\* the SearchHit built from chunk i of the store
HitFromChunk(store, i) ==
    [chunkId |-> <<i>>, text |-> store[i].doc, path |-> store[i].path,
     className |-> store[i].className, methodName |-> store[i].methodName,
     lineStart |-> store[i].lines[1], lineEnd |-> store[i].lines[2],
     collectionName |-> store[i].collectionName]

\* { $or: filePaths.map(p => ({ relativePath: { $contains: p } })) }, or no
\* clause when no file paths are given
PathClause(chunk, filePaths) ==
    filePaths = <<>> \/ \E i \in 1..Len(filePaths) : Includes(chunk.path, filePaths[i])

\* the where clauses of the three operations
NoWhere == [op |-> "", symbol |-> <<>>, filePaths |-> <<>>, filePath |-> <<>>]

\* the backend's test of a chunk against a where clause: symbol search asks
\* for a className or a methodName that contains the symbol (an absent one
\* contains nothing) and for the file paths, regex search for the file paths,
\* file retrieval for the exact path
Satisfies(chunk, where) ==
    CASE where.op = "searchBySymbolName" ->
            /\ \/ chunk.className # <<>> /\ Includes(chunk.className, where.symbol)
               \/ chunk.methodName # <<>> /\ Includes(chunk.methodName, where.symbol)
            /\ PathClause(chunk, where.filePaths)
      [] where.op = "regexSearch" -> PathClause(chunk, where.filePaths)
      [] where.op = "getFileByPath" -> chunk.path = where.filePath

\* collection.get({ where, limit }) on collection name: the first `limit`
\* chunks of the collection that satisfy the where clause, as hits
RECURSIVE Matching(_, _, _, _)
Matching(store, name, where, i) ==
    IF i > Len(store) THEN <<>>
    ELSE IF store[i].collectionName = name /\ Satisfies(store[i], where)
    THEN <<HitFromChunk(store, i)>> \o Matching(store, name, where, i + 1)
    ELSE Matching(store, name, where, i + 1)

Get(store, name, where, limit) == Slice(Matching(store, name, where, 1), limit)

\* GatheredUntilFailure: Gathered with the try block around the for loop, so
\* that the loop ends at the first collection whose backend call throws
RECURSIVE GatheredUntilFailure(_, _, _, _, _)
GatheredUntilFailure(names, store, failing, where, limit) ==
    IF names = <<>> \/ Head(names) \in failing THEN <<>>
    ELSE Get(store, Head(names), where, limit)
            \o GatheredUntilFailure(Tail(names), store, failing, where, limit)

\* the hits the for loop over this.collections gathers, one collection after
\* the other: a collection whose backend call throws adds nothing
RECURSIVE Gathered(_, _, _, _, _)
Gathered(names, store, failing, where, limit) ==
    IF names = <<>> THEN <<>>
    ELSE (IF Head(names) \in failing THEN <<>>
          ELSE Get(store, Head(names), where, limit))
            \o Gathered(Tail(names), store, failing, where, limit)

Returned(value) == [threw |-> FALSE, error |-> "", value |-> value]
Threw(error) == [threw |-> TRUE, error |-> error, value |-> <<>>]

\* searchBySymbolName(symbol, filePaths) over the collections `names`: the
\* chunks the where clause selects, reconstructed
searchBySymbolName(names, store, failing, symbol, filePaths) ==
    LET where == [NoWhere EXCEPT !.op = "searchBySymbolName", !.symbol = symbol,
                                 !.filePaths = filePaths]
    IN  Returned(reconstructSplitNodes(Gathered(names, store, failing, where, 100)))

\* String.prototype.toLowerCase, on the letters of the model
Lower(str) == [i \in 1..Len(str) |-> IF str[i] = "F" THEN "f" ELSE str[i]]

\* new RegExp(regexPattern, flags).test(doc) for a pattern given as its
\* tokens: a leading "(?i)" is cut off and becomes the flag i; the rest is
\* literal text
RegexTest(pattern, doc) ==
    IF pattern # <<>> /\ Head(pattern) = "(?i)"
    THEN Includes(Lower(doc), Lower(Tail(pattern)))
    ELSE Includes(doc, pattern)

\* new RegExp(regexPattern, flags) throws a SyntaxError for a pattern that is
\* no regular expression; of the tokens of the model "(" is the one that
\* makes a pattern ill-formed
WellFormed(pattern) ==
    LET regexPattern == IF pattern # <<>> /\ Head(pattern) = "(?i)"
                        THEN Tail(pattern) ELSE pattern
    IN  \A i \in 1..Len(regexPattern) : regexPattern[i] # "("

\* regexSearchNeedsChunks: regexSearch that, like getFileByPath, throws when
\* the collections gave it no chunk to test
regexSearchNeedsChunks(names, store, failing, pattern, filePaths) ==
    LET where == [NoWhere EXCEPT !.op = "regexSearch", !.filePaths = filePaths]
        fetched == Gathered(names, store, failing, where, 1000)
    IN  IF ~WellFormed(pattern) THEN Threw("Invalid regular expression")
        ELSE IF fetched = <<>> THEN Threw("No chunks")
        ELSE Returned(SelectSeq(fetched, LAMBDA hit : RegexTest(pattern, hit.text)))

\* regexSearch(pattern, filePaths) over the collections `names`: the pattern
\* is compiled before the loop, outside every try block; the documents are
\* fetched by path and tested against the pattern by the client
regexSearch(names, store, failing, pattern, filePaths) ==
    LET where == [NoWhere EXCEPT !.op = "regexSearch", !.filePaths = filePaths]
        fetched == Gathered(names, store, failing, where, 1000)
    IN  IF ~WellFormed(pattern) THEN Threw("Invalid regular expression")
        ELSE Returned(SelectSeq(fetched, LAMBDA hit : RegexTest(pattern, hit.text)))

\* new RegExp(args.pattern) of the regex_search tool, on the pattern as the
\* caller gave it: besides "(" the group "(?i)" is no JavaScript syntax and
\* makes the constructor throw a SyntaxError
Compiles(pattern) ==
    \A i \in 1..Len(pattern) : pattern[i] \notin {"(", "(?i)"}

\* RegexSearchTool.execute(args, ctx): the pattern is validated, then handed
\* to the adapter; the results are the adapter's hits, one for one
regexSearchTool(names, store, failing, pattern, filePaths) ==
    IF ~Compiles(pattern) THEN Threw("Invalid regex pattern")
    ELSE regexSearch(names, store, failing, pattern, filePaths)

\* getFileByPathUnsorted: the chunks joined in the order the collections gave
\* them
getFileByPathUnsorted(names, store, failing, filePath) ==
    LET where == [NoWhere EXCEPT !.op = "getFileByPath", !.filePath = filePath]
        allChunks == Gathered(names, store, failing, where, 1000)
    IN  IF allChunks = <<>> THEN Threw("File not found")
        ELSE Returned(Join([i \in 1..Len(allChunks) |-> allChunks[i].text],
                           <<"\n", "\n">>))

\* getFileByPath(filePath) over the collections `names`: the chunks of the
\* exact path, sorted by line start, their texts joined by "\n\n"
getFileByPath(names, store, failing, filePath) ==
    LET where == [NoWhere EXCEPT !.op = "getFileByPath", !.filePath = filePath]
        allChunks == Gathered(names, store, failing, where, 1000)
        sorted == SortByLineStart(allChunks)
    IN  IF allChunks = <<>> THEN Threw("File not found")
        ELSE Returned(Join([i \in 1..Len(sorted) |-> sorted[i].text],
                           <<"\n", "\n">>))

\* pc: "idle", "call" (an operation is asked for), "done" (it returned or
\* threw outcome)
AdapterIdle ==
    [pc |-> "idle", op |-> "", store |-> <<>>, failing |-> {}, symbol |-> <<>>,
     pattern |-> <<>>, filePath |-> <<>>, filePaths |-> <<>>,
     outcome |-> Returned(<<>>)]

SearchBySymbolName ==
    /\ adapter.pc = "call"
    /\ adapter.op = "searchBySymbolName"
    /\ adapter' = [adapter EXCEPT !.pc = "done",
            !.outcome = searchBySymbolName(CollectionNames, adapter.store,
                            adapter.failing, adapter.symbol, adapter.filePaths)]
    /\ UNCHANGED <<agent, run, search, recon, main, memory, structured, final, env>>

RegexSearch ==
    /\ adapter.pc = "call"
    /\ adapter.op = "regexSearch"
    /\ adapter' = [adapter EXCEPT !.pc = "done",
            !.outcome = regexSearch(CollectionNames, adapter.store,
                            adapter.failing, adapter.pattern, adapter.filePaths)]
    /\ UNCHANGED <<agent, run, search, recon, main, memory, structured, final, env>>

RegexSearchToolExecute ==
    /\ adapter.pc = "call"
    /\ adapter.op = "regex_search"
    /\ adapter' = [adapter EXCEPT !.pc = "done",
            !.outcome = regexSearchTool(CollectionNames, adapter.store,
                            adapter.failing, adapter.pattern, adapter.filePaths)]
    /\ UNCHANGED <<agent, run, search, recon, main, memory, structured, final, env>>

GetFileByPath ==
    /\ adapter.pc = "call"
    /\ adapter.op = "getFileByPath"
    /\ adapter' = [adapter EXCEPT !.pc = "done",
            !.outcome = getFileByPath(CollectionNames, adapter.store,
                            adapter.failing, adapter.filePath)]
    /\ UNCHANGED <<agent, run, search, recon, main, memory, structured, final, env>>

(***************************************************************************)
(* providers (vectorstores/VectorStoreAdapter.ts): structuredOutput of the *)
(* three clients, and its callers planFromQuery and evaluate               *)
(*   raw is what the model's call gives: the call fails ("fail"), or its   *)
(*   text is no JSON ("text"), the JSON null, an array of steps ("array"), *)
(*   the object { steps } or { plan }, the empty object ("empty"), or an   *)
(*   object with a decision and, when reason is TRUE, a reason.            *)
(***************************************************************************)
Providers == {"openai", "anthropic", "google"}

NoJson == [kind |-> "", steps |-> <<>>, decision |-> "", reason |-> FALSE]

\* the arrays of steps a model writes
JsonSteps == SeqsUpTo(PlanStep, 1)

RawOutputs ==
    {[NoJson EXCEPT !.kind = k] : k \in {"fail", "text", "null", "empty"}}
        \cup {[NoJson EXCEPT !.kind = k, !.steps = st] :
                    k \in {"array", "steps", "plan"}, st \in JsonSteps}
        \cup {[NoJson EXCEPT !.kind = "decision", !.decision = d, !.reason = r] :
                    d \in {"continue", "finalize", "revise", "stop"}, r \in BOOLEAN}

\* schema.parse accepts the value: PlanSchema wants { steps } with at least
\* one step, PlanDecisionSchema a decision of the enum and a reason
Conforms(schema, json) ==
    CASE schema = "PlanSchema" -> json.kind = "steps" /\ json.steps # <<>>
      [] schema = "PlanDecisionSchema" ->
            /\ json.kind = "decision"
            /\ json.decision \in {"continue", "finalize", "revise"}
            /\ json.reason

\* OpenAIClient.structuredOutput: the completion is parsed against the schema
OpenAIStructuredOutput(schema, raw) ==
    IF raw.kind = "fail" THEN Threw("OpenAI API Error (structured output)")
    ELSE IF Conforms(schema, raw) THEN Returned(raw)
    ELSE Threw("Failed to parse structured output from OpenAI")

\* AnthropicClient.structuredOutput
AnthropicStructuredOutput(schema, raw) ==
    Threw("Structured output not yet strictly implemented for Anthropic in this adapter")

\* GoogleClient.structuredOutput: JSON.parse and three rewrites; the schema
\* is not used
GoogleStructuredOutput(schema, raw) ==
    CASE raw.kind = "fail" -> Threw("Google API Error")
      [] raw.kind \in {"text", "null"} ->
            Threw("Failed to parse valid JSON from Gemini")
      [] raw.kind \in {"array", "plan"} -> Returned([raw EXCEPT !.kind = "steps"])
      [] OTHER -> Returned(raw)

\* llm.structuredOutput(messages, schema) of the client createLLMClient gives
structuredOutput(provider, schema, raw) ==
    CASE provider = "openai" -> OpenAIStructuredOutput(schema, raw)
      [] provider = "anthropic" -> AnthropicStructuredOutput(schema, raw)
      [] provider = "google" -> GoogleStructuredOutput(schema, raw)

\* planFromQuery: the plan is returned as it came; reading plan.steps.length
\* of a value without steps throws inside the try block
planFromQuery(provider, raw) ==
    LET plan == structuredOutput(provider, "PlanSchema", raw)
    IN  IF plan.threw \/ plan.value.kind # "steps"
        THEN Threw("Failed to create plan")
        ELSE plan

\* the decision of evaluate's catch block
ContinueDecision == [NoJson EXCEPT !.kind = "decision", !.decision = "continue",
                                   !.reason = TRUE]

\* evaluate: the decision is returned as it came, and every exception
\* becomes the decision continue
evaluateCall(provider, raw) ==
    LET decision == structuredOutput(provider, "PlanDecisionSchema", raw)
    IN  IF decision.threw THEN Returned(ContinueDecision) ELSE decision

\* pc: "idle", "call" (caller awaits the model's output raw), "done"
StructuredIdle ==
    [pc |-> "idle", caller |-> "", provider |-> "", raw |-> NoJson,
     result |-> Returned(NoJson)]

PlannerCall ==
    /\ structured.pc = "call"
    /\ structured.caller = "planFromQuery"
    /\ structured' = [structured EXCEPT !.pc = "done",
            !.result = planFromQuery(structured.provider, structured.raw)]
    /\ UNCHANGED <<agent, run, search, recon, main, memory, adapter, final, env>>

EvaluatorCall ==
    /\ structured.pc = "call"
    /\ structured.caller = "evaluate"
    /\ structured' = [structured EXCEPT !.pc = "done",
            !.result = evaluateCall(structured.provider, structured.raw)]
    /\ UNCHANGED <<agent, run, search, recon, main, memory, adapter, final, env>>

(***************************************************************************)
(* runtime/finalizer.ts: finalize                                          *)
(*   pc: "idle", "chat" (llm.chat is awaited), "returned", "threw".        *)
(*   invoked lists the tool calls finalize has executed.                   *)
(***************************************************************************)
Queries == {<<"q">>, <<"r">>}

\* finalizerPrompt: the question and, per outcome, its step id, status and
\* summary
FinalizerPrompt(allOutcomes, userQuery) ==
    [question |-> userQuery,
     outcomes |-> [i \in 1..Len(allOutcomes) |->
                     <<allOutcomes[i].stepId, allOutcomes[i].status,
                       allOutcomes[i].summary>>]]

\* what llm.chat can answer: content (empty when there is none) and the
\* tool calls the model chose to ask for
ChatResponses == [content : {<<>>, <<"answer">>}, toolCalls : SeqsUpTo({"valid"}, 1)]

FinalIdle ==
    [pc |-> "idle", userQuery |-> <<>>, allOutcomes |-> <<>>,
     prompt |-> FinalizerPrompt(<<>>, <<>>), tools |-> <<>>,
     invoked |-> <<>>, answer |-> <<>>]

\* finalize(llm, allOutcomes, userQuery) up to llm.chat(messages), which is
\* given no tools
FinalizerStarted(f, allOutcomes) ==
    [f EXCEPT !.pc = "chat", !.allOutcomes = allOutcomes,
              !.prompt = FinalizerPrompt(allOutcomes, f.userQuery),
              !.tools = <<>>]

\* FinalizerResponded with the tool calls of the response executed
FinalizerRespondedWithTools(f, response) ==
    [f EXCEPT !.pc = IF response.content = <<>> THEN "threw" ELSE "returned",
              !.answer = response.content,
              !.invoked = response.toolCalls]

\* llm.chat returned: response.content is the answer, none is an error;
\* nothing else of the response is read
FinalizerResponded(f, response) ==
    [f EXCEPT !.pc = IF response.content = <<>> THEN "threw" ELSE "returned",
              !.answer = response.content]

\* llm.chat threw: rethrown as 'Failed to generate final answer'
FinalizerChatThrew(f) == [f EXCEPT !.pc = "threw"]

\* the step loop is over: the orchestrator calls the finalizer with the
\* outcome log
FinalizerCall ==
    /\ run.pc = "returned"
    /\ final.pc = "idle"
    /\ final' = FinalizerStarted(final, <<run.outcome>>)
    /\ UNCHANGED <<agent, run, search, recon, main, memory, adapter, structured, env>>

FinalizerChat ==
    /\ final.pc = "chat"
    /\ \/ \E response \in ChatResponses : final' = FinalizerResponded(final, response)
       \/ final' = FinalizerChatThrew(final)
    /\ UNCHANGED <<agent, run, search, recon, main, memory, adapter, structured, env>>

(***************************************************************************)
(* config/env.ts: loadConfig and its module-level cache                    *)
(*   raw is process.env as far as validation looks at it: PROVIDER ("" when*)
(*   unset), whether MODEL is set, and which keys are set.                 *)
(***************************************************************************)
ProviderSchema == {"openai", "anthropic", "azure_openai", "google"}

RawConfigs ==
    [provider : ProviderSchema \cup {"", "mistral"},
     model : BOOLEAN,
     openaiApiKey : BOOLEAN,
     anthropicApiKey : BOOLEAN,
     azureOpenAIApiKey : BOOLEAN,
     azureOpenAIEndpoint : BOOLEAN,
     googleApiKey : BOOLEAN,
     embeddingProvider : {"openai", "google"},
     embeddingApiKey : BOOLEAN]

\* ConfigSchema.parse(rawConfig): PROVIDER must be one of the enum or unset
\* (default openai), MODEL must be set
SchemaAccepts(raw) ==
    /\ raw.provider \in ProviderSchema \cup {""}
    /\ raw.model

Parsed(raw) ==
    [raw EXCEPT !.provider = IF raw.provider = "" THEN "openai" ELSE raw.provider]

\* validateEmbeddingConfig(config): TRUE when it does not throw
validateEmbeddingConfig(config) ==
    \/ config.embeddingApiKey
    \/ config.embeddingProvider = "openai" /\ config.openaiApiKey
    \/ config.embeddingProvider = "google" /\ config.googleApiKey

\* validateProviderConfig(config): TRUE when it does not throw
validateProviderConfig(config) ==
    /\ config.provider = "openai" => config.openaiApiKey
    /\ config.provider = "anthropic" => config.anthropicApiKey
    /\ config.provider = "azure_openai"
          => config.azureOpenAIApiKey /\ config.azureOpenAIEndpoint
    /\ config.provider = "google" => config.googleApiKey
    /\ validateEmbeddingConfig(config)

NoConfig == [set |-> FALSE, config |-> <<>>]

\* loadConfig(): the cached configuration when there is one; otherwise the
\* parsed environment, assigned to cachedConfig before the provider checks
loadConfig(e) ==
    IF e.cachedConfig.set
    THEN [e EXCEPT !.calls = @ + 1, !.outcome = Returned(e.cachedConfig.config)]
    ELSE IF ~SchemaAccepts(e.raw)
    THEN [e EXCEPT !.calls = @ + 1,
                   !.outcome = Threw("Configuration validation failed")]
    ELSE LET config == Parsed(e.raw)
         IN  IF ~validateProviderConfig(config)
             THEN [e EXCEPT !.calls = @ + 1,
                            !.cachedConfig = [set |-> TRUE, config |-> config],
                            !.outcome = Threw("key is required")]
             ELSE [e EXCEPT !.calls = @ + 1,
                            !.cachedConfig = [set |-> TRUE, config |-> config],
                            !.outcome = Returned(config)]

\* clearConfigCache()
clearConfigCache(e) == [e EXCEPT !.cachedConfig = NoConfig]

EnvIdle ==
    [raw |-> [provider |-> "", model |-> FALSE, openaiApiKey |-> FALSE,
              anthropicApiKey |-> FALSE, azureOpenAIApiKey |-> FALSE,
              azureOpenAIEndpoint |-> FALSE, googleApiKey |-> FALSE,
              embeddingProvider |-> "openai", embeddingApiKey |-> FALSE],
     cachedConfig |-> NoConfig, calls |-> 0, outcome |-> Returned(<<>>)]

\* some consumer of the process calls loadConfig()
LoadConfig ==
    /\ env.calls < MaxLoads
    /\ env' = loadConfig(env)
    /\ UNCHANGED <<agent, run, search, recon, main, memory, adapter, structured, final>>

\* clearConfigCache() is called
ClearConfigCache ==
    /\ env.cachedConfig.set
    /\ env' = clearConfigCache(env)
    /\ UNCHANGED <<agent, run, search, recon, main, memory, adapter, structured, final>>

(***************************************************************************)
(* memory/ConversationManager.ts                                           *)
(*   A turn carries the number of the save that appended it (its content   *)
(*   and timestamp), the length of its content in characters and, for a    *)
(*   user turn, the embedding saved with it. A similarity dot / sqrt(nn)   *)
(*   is kept as <<dot, nn>>, a threshold p / q as <<p, q>>.                *)
(***************************************************************************)
\* what embedder.embed can return for a text: vectors of the provider's
\* dimension (one of them from a provider of another dimension)
Embeddings == {<<1>>, <<1, 0>>, <<1, 1>>}

NoEmbedding == [given |-> FALSE, vec |-> <<>>]

\* the outcomes of embedder.embed: a vector, or a failure
EmbedOutcomes == {NoEmbedding} \cup {[given |-> TRUE, vec |-> v] : v \in Embeddings}

\* lengths of a turn's content, in characters
ContentLengths == {1, 20}

\* MEMORY_CACHE_THRESHOLD: a number in [0, 1]
Thresholds == {<<0, 1>>, <<1, 2>>, <<1, 1>>}

Turn(role, id, length, embedding) ==
    [role |-> role, id |-> id, length |-> length, embedding |-> embedding]

\* JSON.stringify of one turn: a key whose value is undefined is left out,
\* an embedding is written as an array of numbers
TurnToJson(t) ==
    IF t.embedding.given
    THEN [role |-> t.role, id |-> t.id, length |-> t.length,
          embedding |-> t.embedding.vec]
    ELSE [role |-> t.role, id |-> t.id, length |-> t.length]

\* TurnFromJson with the embedding array not read back
TurnFromJsonWithoutEmbedding(j) == Turn(j.role, j.id, j.length, NoEmbedding)

\* the Turn that JSON.parse gives back: turn.embedding is undefined when the
\* key is not in the document
TurnFromJson(j) ==
    Turn(j.role, j.id, j.length,
         IF "embedding" \in DOMAIN j
         THEN [given |-> TRUE, vec |-> j.embedding]
         ELSE NoEmbedding)

\* JSON.stringify of the turn array
Stringified(history) == [i \in 1..Len(history) |-> TurnToJson(history[i])]

\* JSON.parse of the turn array
ParsedTurns(document) == [i \in 1..Len(document) |-> TurnFromJson(document[i])]

RECURSIVE Dot(_, _)
Dot(a, b) == IF a = <<>> THEN 0 ELSE a[1] * b[1] + Dot(Tail(a), Tail(b))

\* cosineSimilarity(a, b): 0 for vectors of different lengths or of norm 0
cosineSimilarity(a, b) ==
    IF Len(a) # Len(b) THEN <<0, 1>>
    ELSE IF Dot(a, a) * Dot(b, b) = 0 THEN <<0, 1>>
    ELSE <<Dot(a, b), Dot(a, a) * Dot(b, b)>>

\* SimilarityAbove with every similarity taken for a better one
SimilarityAny(s, t) == TRUE

\* similarity > bestSimilarity
SimilarityAbove(s, t) == s[1] * s[1] * t[2] > t[1] * t[1] * s[2]

\* ReachesThreshold with the threshold test left out
ReachesThresholdIgnored(s, t) == TRUE

\* similarity >= config.memoryCacheThreshold
ReachesThreshold(s, t) == s[1] * s[1] * t[2] * t[2] >= t[1] * t[1] * s[2]

NoMatch == [found |-> FALSE, query |-> 0, response |-> 0, similarity |-> <<0, 1>>]

\* the for loop of findSimilarQuery from index i of this.history on: user
\* turns with an embedding are compared, the best one so far that reaches the
\* threshold is kept with the assistant turn that follows it
RECURSIVE ScanTurns(_, _, _, _, _, _)
ScanTurns(history, threshold, q, i, bestMatch, bestSimilarity) ==
    IF i > Len(history) THEN bestMatch
    ELSE IF history[i].role # "user" \/ ~history[i].embedding.given
    THEN ScanTurns(history, threshold, q, i + 1, bestMatch, bestSimilarity)
    ELSE LET similarity == cosineSimilarity(q, history[i].embedding.vec)
         IN  IF SimilarityAbove(similarity, bestSimilarity)
                  /\ ReachesThreshold(similarity, threshold)
             THEN ScanTurns(history, threshold, q, i + 1,
                            IF i < Len(history) /\ history[i + 1].role = "assistant"
                            THEN [found |-> TRUE, query |-> history[i].id,
                                  response |-> history[i + 1].id,
                                  similarity |-> similarity]
                            ELSE bestMatch,
                            similarity)
             ELSE ScanTurns(history, threshold, q, i + 1, bestMatch, bestSimilarity)

\* findSimilarQuery(query), e the outcome of embedding the query: null
\* without history, with caching switched off (threshold <= 0) or when the
\* embedding fails
findSimilarQuery(m, e) ==
    IF Len(m.history) = 0 \/ m.config.memoryCacheThreshold[1] <= 0 THEN NoMatch
    ELSE IF ~e.given THEN NoMatch
    ELSE ScanTurns(m.history, m.config.memoryCacheThreshold, e.vec, 1,
                   NoMatch, <<0, 1>>)

\* LastN with the first n elements kept: slice(0, n)
FirstN(seq, n) == SubSeq(seq, 1, IF Len(seq) > n THEN n ELSE Len(seq))

\* LastN with the window one element early: slice(-n - 1, -1)
LastNButOne(seq, n) ==
    SubSeq(seq, IF Len(seq) > n + 1 THEN Len(seq) - n ELSE 1, Len(seq) - 1)

\* Array.prototype.slice(-n), n > 0
LastN(seq, n) == SubSeq(seq, IF Len(seq) > n THEN Len(seq) - n + 1 ELSE 1, Len(seq))

\* Array.prototype.slice(0, -n), n > 0
AllButLastN(seq, n) == SubSeq(seq, 1, IF Len(seq) > n THEN Len(seq) - n ELSE 0)

RECURSIVE RecentTextLength(_)
\* the turns as `${label}: ${content}` ("User" or "Assistant"), joined by "\n\n"
RecentTextLength(turns) ==
    IF turns = <<>> THEN 0
    ELSE (IF Head(turns).role = "user" THEN 6 ELSE 11) + Head(turns).length
            + (IF Len(turns) > 1 THEN 2 + RecentTextLength(Tail(turns)) ELSE 0)

\* the length of getHistoryContext(): the last historyContextSize turns,
\* behind the summary and its two headings when there is a summary
HistoryContextLength(m) ==
    LET recent == RecentTextLength(LastN(m.history, m.config.historyContextSize))
    IN  IF m.history = <<>> /\ m.summary = 0 THEN 0
        ELSE IF m.summary > 0 THEN 32 + m.summary + 24 + recent
        ELSE recent

\* HistorySummarizer.estimateTokens: Math.ceil(text.length / 4)
estimateTokens(length) == (length + 3) \div 4

\* what llm.chat gives the summarizer: content of some length after trim()
\* (0: none), or a failure
SummaryOutcomes ==
    {[ok |-> TRUE, length |-> n] : n \in {0, 3, 600}}
        \cup {[ok |-> FALSE, length |-> 0]}

\* HistorySummarizer.summarize(llm, turns): the length of the string returned;
\* on failure the fallback sentence around the first 100 characters of the
\* first turn, when there are at least two turns
summarize(turns, s) ==
    IF turns = <<>> THEN 0
    ELSE IF s.ok THEN s.length
    ELSE IF Len(turns) >= 2
    THEN 32 + (IF turns[1].length < 100 THEN turns[1].length ELSE 100) + 14
    ELSE 0

TurnKeys(turns) == {<<turns[i].role, turns[i].id>> : i \in 1..Len(turns)}

\* maybeSummarize(llm), s the summarizer's model outcome: when the context is
\* over the token budget, the last 10 turns outside the context window are
\* summarized and the summary is appended and cut to its last 1000 characters
maybeSummarize(m, s) ==
    LET olderTurns == AllButLastN(m.history, m.config.historyContextSize)
        estimatedTokens == estimateTokens(HistoryContextLength(m))
        turnsToSummarize == LastN(olderTurns, 10)
        newSummary == summarize(turnsToSummarize, s)
        joined == IF m.summary > 0 THEN m.summary + 1 + newSummary ELSE newSummary
    IN  IF estimatedTokens <= m.config.memoryMaxTokens \/ olderTurns = <<>> THEN m
        ELSE IF newSummary = 0 THEN m
        ELSE [m EXCEPT !.summary = IF joined > 1000 THEN 1000 ELSE joined,
                       !.summarized = @ \cup TurnKeys(turnsToSummarize)]

\* persist(): the file is rewritten whole; a failed write is logged only
persist(m, written) ==
    IF written
    THEN [m EXCEPT !.file = [exists |-> TRUE, history |-> Stringified(m.history),
                             summary |-> m.summary]]
    ELSE [m EXCEPT !.log = @ \cup {"Failed to save history"}]

\* saveTurnNeedsEmbedding: saveTurn given up when the embedding fails
saveTurnNeedsEmbedding(m, lengths, e, s, written) ==
    [m EXCEPT !.appended = @ + 1,
              !.log = {"Failed to generate embedding"}]

\* saveTurn(userQuery, agentResponse, llm): lengths are those of the query and
\* the response, e the outcome of embedding the query, s the summarizer's
\* model outcome, written whether the file write succeeds; log is what this
\* call wrote to the console as warnings and errors
saveTurn(m, lengths, e, s, written) ==
    LET id == m.appended + 1
        pushed == [m EXCEPT !.appended = id,
                            !.log = IF e.given THEN {}
                                    ELSE {"Failed to generate embedding"},
                            !.history = @ \o <<Turn("user", id, lengths[1], e),
                                               Turn("assistant", id, lengths[2],
                                                    NoEmbedding)>>]
        summed == IF m.config.memorySummarizationEnabled
                  THEN maybeSummarize(pushed, s) ELSE pushed
        retentionLimit == m.config.historyRetentionSize
        kept == IF Len(summed.history) > retentionLimit
                THEN [summed EXCEPT
                        !.history = LastN(@, retentionLimit),
                        !.dropped = @ \cup TurnKeys(
                            AllButLastN(summed.history, retentionLimit))]
                ELSE summed
    IN  persist(kept, written)

\* the configurations of the memory layer
MemoryConfigs ==
    [memoryCacheThreshold : Thresholds,
     historyRetentionSize : 1..MaxRetention,
     historyContextSize : {1, 2, 6},
     memoryMaxTokens : {10, 2000},
     memorySummarizationEnabled : BOOLEAN]

\* new ConversationManager() where no history file exists
NewMemory(config) ==
    [config |-> config, history |-> <<>>, summary |-> 0,
     file |-> [exists |-> FALSE, history |-> <<>>, summary |-> 0],
     appended |-> 0, summarized |-> {}, dropped |-> {}, log |-> {},
     loaded |-> FALSE]

\* loadHistory(): the document written by persist() is read back whole
\* (parsed.history || [], parsed.summarizedContext || ''); without a file
\* the fields keep their initial values
loadHistory(m) ==
    IF ~m.file.exists THEN m
    ELSE [m EXCEPT !.history = ParsedTurns(m.file.history),
                   !.summary = m.file.summary,
                   !.loaded = TRUE]

\* new ConversationManager() of a later process start, against the file and
\* the configuration that the earlier process m left behind; the counts of
\* what was ever appended, summarized and dropped go on
ConversationManager(m) ==
    [loadHistory([NewMemory(m.config) EXCEPT !.file = m.file])
        EXCEPT !.appended = m.appended, !.summarized = m.summarized,
               !.dropped = m.dropped]

MemoryIdle ==
    NewMemory([memoryCacheThreshold |-> <<0, 1>>, historyRetentionSize |-> 1,
               historyContextSize |-> 1, memoryMaxTokens |-> 1,
               memorySummarizationEnabled |-> FALSE])

\* one query saved by the conversation manager
SaveTurn ==
    /\ memory.appended < MaxSaves
    /\ \E length \in ContentLengths, e \in {NoEmbedding, [given |-> TRUE, vec |-> <<1, 0>>]},
          s \in SummaryOutcomes, written \in BOOLEAN :
          memory' = saveTurn(memory, <<1, length>>, e, s, written)
    /\ UNCHANGED <<agent, run, search, recon, main, adapter, structured, final, env>>

MainIdle ==
    [pc |-> "idle", memoryEnabled |-> FALSE, embedding |-> NoEmbedding,
     stdout |-> <<>>, exitCode |-> 0]

Init ==
    /\ env = EnvIdle
    /\ agent = AgentInit
    /\ run = RunInit
    /\ search = SearchIdle
    /\ recon = ReconIdle
    /\ main = MainIdle
    /\ memory = MemoryIdle
    /\ adapter = AdapterIdle
    /\ structured = StructuredIdle
    /\ final = FinalIdle

Next ==
    \/ PlanFromQuery
    \/ RunStep
    \/ Evaluate(TRUE)
    \/ Finalize

Spec == Init /\ [][Next]_vars

\* The awaited calls of runAgent are made one after another and each returns
\* or throws, so a query that can take a step takes it.
FairSpec == Spec /\ WF_vars(Next)

\* One query whose evaluator is not held to finitely many revisions.
NextUnbounded ==
    \/ PlanFromQuery
    \/ RunStep
    \/ Evaluate(FALSE)
    \/ Finalize

UnboundedSpec == Init /\ [][NextUnbounded]_vars /\ WF_vars(NextUnbounded)

(***************************************************************************)
(* main.ts: one query, from the command line to the exit of the process    *)
(*   pc: "start" -> "memory" -> ("agent" ->) "returned", or "exit1" when   *)
(*   an error reaches the catch block. stdout lists what was printed as    *)
(*   an answer: the cached response of a save, or the final answer.        *)
(***************************************************************************)
\* the history file a run finds: the saves of earlier runs, whose queries
\* were embedded with outcomes es
RECURSIVE Stored(_, _)
Stored(config, es) ==
    IF es = <<>> THEN NewMemory(config)
    ELSE saveTurn(Stored(config, SubSeq(es, 1, Len(es) - 1)), <<1, 1>>,
                  es[Len(es)], [ok |-> TRUE, length |-> 3], TRUE)

\* createLLMClient() and vectorStore.connect() returned
Connected(p) == [p EXCEPT !.pc = "memory"]

\* Crashed with what the run had gathered printed before the exit
CrashedWithPartialAnswer(p) ==
    [p EXCEPT !.pc = "exit1", !.exitCode = 1, !.embedding = NoEmbedding,
              !.stdout = Append(@, [kind |-> "partial", id |-> 0])]

\* an error reached the catch block of main(): process.exit(1)
Crashed(p) == [p EXCEPT !.pc = "exit1", !.exitCode = 1, !.embedding = NoEmbedding]

\* the cached answer is printed and main() returns
AnsweredFromCache(p, cached) ==
    [p EXCEPT !.pc = "returned", !.embedding = NoEmbedding,
              !.stdout = Append(@, [kind |-> "cached", id |-> cached.response])]

\* no cached answer: runAgent is called
AgentCalled(p) == [p EXCEPT !.pc = "agent", !.embedding = NoEmbedding]

\* runAgent returned: the final answer, saved as turn id, is printed
AnswerPrinted(p, id) ==
    [p EXCEPT !.pc = "returned",
              !.stdout = Append(@, [kind |-> "final", id |-> id])]

Connect ==
    /\ main.pc = "start"
    /\ \/ main' = Connected(main)
       \/ main' = Crashed(main)
    /\ UNCHANGED <<agent, run, search, recon, memory, adapter, structured, final, env>>

\* CheckCache with the cached answer saved as a new turn before the return
CheckCacheAndSave ==
    /\ main.pc = "memory"
    /\ LET cached == findSimilarQuery(memory, main.embedding)
       IN  IF main.memoryEnabled /\ cached.found
           THEN /\ main' = AnsweredFromCache(main, cached)
                /\ memory' = saveTurn(memory, <<1, 1>>, main.embedding,
                                      [ok |-> TRUE, length |-> 3], TRUE)
           ELSE /\ main' = AgentCalled(main)
                /\ memory' = memory
    /\ UNCHANGED <<agent, run, search, recon, adapter, structured, final, env>>

\* if (appConfig.memoryEnabled) { cached = await memory.findSimilarQuery(..) }
CheckCache ==
    /\ main.pc = "memory"
    /\ LET cached == findSimilarQuery(memory, main.embedding)
       IN  main' = IF main.memoryEnabled /\ cached.found
                   THEN AnsweredFromCache(main, cached)
                   ELSE AgentCalled(main)
    /\ UNCHANGED <<agent, run, search, recon, memory, adapter, structured, final, env>>

\* answer = await runAgent(...): the steps of the orchestrator
RunAgent ==
    /\ main.pc = "agent"
    /\ NextUnbounded

\* runAgent returned: memory.saveTurn(question, answer, llm), then the print
SaveAndPrint ==
    /\ main.pc = "agent"
    /\ agent.pc = "done"
    /\ main' = AnswerPrinted(main, memory.appended + 1)
    /\ IF main.memoryEnabled
       THEN \E e \in EmbedOutcomes, s \in SummaryOutcomes, written \in BOOLEAN :
               memory' = saveTurn(memory, <<1, 1>>, e, s, written)
       ELSE memory' = memory
    /\ UNCHANGED <<agent, run, search, recon, adapter, structured, final, env>>

\* runAgent threw
Crash ==
    /\ main.pc = "agent"
    /\ agent.pc = "failed"
    /\ main' = Crashed(main)
    /\ UNCHANGED <<agent, run, search, recon, memory, adapter, structured, final, env>>

\* One query from the command line, against the history file of earlier runs.
MainInit ==
    /\ env = EnvIdle
    /\ agent = AgentInit
    /\ run = RunInit
    /\ search = SearchIdle
    /\ recon = ReconIdle
    /\ adapter = AdapterIdle
    /\ structured = StructuredIdle
    /\ final = FinalIdle
    /\ \E enabled \in BOOLEAN, e \in EmbedOutcomes :
          main = [MainIdle EXCEPT !.pc = "start", !.memoryEnabled = enabled,
                                  !.embedding = e]
    /\ \E config \in MemoryConfigs, es \in SeqsUpTo(EmbedOutcomes, MaxSaves - 1) :
          /\ config.historyContextSize = 6
          /\ config.memoryMaxTokens = 2000
          /\ config.historyRetentionSize = MaxRetention
          /\ config.memorySummarizationEnabled
          /\ memory = Stored(config, es)

MainNext ==
    \/ Connect
    \/ CheckCache
    \/ RunAgent
    \/ SaveAndPrint
    \/ Crash

MainSpec == MainInit /\ [][MainNext]_vars

\* The cache lookup of one query against a log that has lost no turn: the
\* retention size is as large as the log.
CacheInit ==
    /\ env = EnvIdle
    /\ agent = AgentInit
    /\ run = RunInit
    /\ search = SearchIdle
    /\ recon = ReconIdle
    /\ adapter = AdapterIdle
    /\ structured = StructuredIdle
    /\ final = FinalIdle
    /\ \E e \in EmbedOutcomes :
          main = [MainIdle EXCEPT !.pc = "memory", !.memoryEnabled = TRUE,
                                  !.embedding = e]
    /\ \E t \in Thresholds, es \in SeqsUpTo(EmbedOutcomes, MaxSaves) :
          memory = Stored([memoryCacheThreshold |-> t,
                           historyRetentionSize |-> 2 * MaxSaves,
                           historyContextSize |-> 6,
                           memoryMaxTokens |-> 2000,
                           memorySummarizationEnabled |-> TRUE], es)

CacheNext == CheckCache

CacheSpec == CacheInit /\ [][CacheNext]_vars

\* The conversation manager by itself: one save after another.
MemoryInit ==
    /\ env = EnvIdle
    /\ agent = AgentInit
    /\ run = RunInit
    /\ search = SearchIdle
    /\ recon = ReconIdle
    /\ main = MainIdle
    /\ adapter = AdapterIdle
    /\ structured = StructuredIdle
    /\ final = FinalIdle
    /\ \E config \in MemoryConfigs :
          /\ config.memoryCacheThreshold = <<1, 2>>
          /\ memory = NewMemory(config)

MemoryNext == SaveTurn

\* a later process start constructs its conversation manager
Restart ==
    /\ memory' = ConversationManager(memory)
    /\ UNCHANGED <<agent, run, search, recon, main, adapter, structured, final, env>>

\* A conversation manager with a token budget small enough for the rolling
\* summary to be written.
RoundTripInit ==
    /\ env = EnvIdle
    /\ agent = AgentInit
    /\ run = RunInit
    /\ search = SearchIdle
    /\ recon = ReconIdle
    /\ main = MainIdle
    /\ adapter = AdapterIdle
    /\ structured = StructuredIdle
    /\ final = FinalIdle
    /\ \E size \in 1..MaxRetention :
          memory = NewMemory([memoryCacheThreshold |-> <<1, 2>>,
                              historyRetentionSize |-> size,
                              historyContextSize |-> 1,
                              memoryMaxTokens |-> 5,
                              memorySummarizationEnabled |-> TRUE])

\* Saves and process starts in any order.
RoundTripNext ==
    \/ SaveTurn
    \/ Restart

RoundTripSpec == RoundTripInit /\ [][RoundTripNext]_vars

MemorySpec == MemoryInit /\ [][MemoryNext]_vars

\* One step, run by itself.
StepInit ==
    /\ env = EnvIdle
    /\ agent = AgentInit
    /\ \E step \in PlanStep : run = Started(step)
    /\ search = SearchIdle
    /\ recon = ReconIdle
    /\ main = MainIdle
    /\ memory = MemoryIdle
    /\ adapter = AdapterIdle
    /\ structured = StructuredIdle
    /\ final = FinalIdle

StepNext ==
    \/ Chat
    \/ ExecuteTool
    \/ Summarize

StepSpec == StepInit /\ [][StepNext]_vars

\* One semantic search, and the same search with one collection removed.
SearchInit ==
    /\ env = EnvIdle
    /\ agent = AgentInit
    /\ run = RunInit
    /\ recon = ReconIdle
    /\ main = MainIdle
    /\ memory = MemoryIdle
    /\ adapter = AdapterIdle
    /\ structured = StructuredIdle
    /\ final = FinalIdle
    /\ \E st \in [{"code", "docs"} -> Ranked], k \in 0..MaxK, f \in Filters,
          bad \in SUBSET {"code", "docs"} :
          search = [SearchIdle EXCEPT !.pc = "call", !.store = st,
                                      !.requested = k, !.filter = f,
                                      !.failing = bad]

SearchNext ==
    \/ SemanticSearch
    \/ SemanticSearchWithout

SearchSpec == SearchInit /\ [][SearchNext]_vars

\* One semantic search with a filter of any fields, over one stored chunk of
\* any metadata.
FilterInit ==
    /\ env = EnvIdle
    /\ agent = AgentInit
    /\ run = RunInit
    /\ recon = ReconIdle
    /\ main = MainIdle
    /\ memory = MemoryIdle
    /\ adapter = AdapterIdle
    /\ structured = StructuredIdle
    /\ final = FinalIdle
    /\ \E name \in {"code", "docs"}, c \in TaggedChunk, f \in QueryFilter :
          search = [SearchIdle EXCEPT
                       !.pc = "call",
                       !.store = [n \in {"code", "docs"} |->
                                     IF n = name THEN <<c>> ELSE <<>>],
                       !.filter = f]

FilterNext == SemanticSearch

FilterSpec == FilterInit /\ [][FilterNext]_vars

\* One hit list, reconstructed and reconstructed again.
ReconInit ==
    /\ env = EnvIdle
    /\ agent = AgentInit
    /\ run = RunInit
    /\ search = SearchIdle
    /\ main = MainIdle
    /\ memory = MemoryIdle
    /\ adapter = AdapterIdle
    /\ structured = StructuredIdle
    /\ final = FinalIdle
    /\ \E n \in 0..MaxHits :
          \E c \in [1..n -> ClassNames], m \in [1..n -> MethodNames],
             l \in [1..n -> LineRanges] :
             recon = [ReconIdle EXCEPT !.pc = "hits",
                                       !.hits = HitList(n, c, m, l)]

ReconNext ==
    \/ Reconstruct
    \/ ReconstructAgain

ReconSpec == ReconInit /\ [][ReconNext]_vars

\* One operation of the adapter on a store of a few chunks.
AdapterCalls ==
    {[AdapterIdle EXCEPT !.pc = "call", !.op = "searchBySymbolName",
                         !.symbol = <<"F">>, !.filePaths = fp] :
        fp \in {<<>>, <<<<"a">>>>}}
    \cup {[AdapterIdle EXCEPT !.pc = "call", !.op = "searchBySymbolName",
                              !.symbol = <<"m">>, !.filePaths = <<>>]}
    \cup {[AdapterIdle EXCEPT !.pc = "call", !.op = "regexSearch",
                              !.pattern = p, !.filePaths = <<>>] :
        p \in {<<"F">>, <<"(?i)", "f">>, <<"x">>, <<"(">>}}
    \cup {[AdapterIdle EXCEPT !.pc = "call", !.op = "regexSearch",
                              !.pattern = <<"F">>, !.filePaths = <<<<"a">>>>]}
    \cup {[AdapterIdle EXCEPT !.pc = "call", !.op = "getFileByPath",
                              !.filePath = p] : p \in {<<"a">>, <<"b">>}}

\* the chunks an operation's store is drawn from: what the operation does not
\* read is the same in all of them
ChunksFor(op) ==
    {c \in StoredChunk :
        /\ op = "searchBySymbolName" => c.doc = <<"F">>
        /\ op = "regexSearch" => /\ c.className = <<>> /\ c.methodName = <<>>
                                  /\ c.lines = <<1, 4>>
        /\ op = "getFileByPath" => c.className = <<>> /\ c.methodName = <<>>}

AdapterInit ==
    /\ env = EnvIdle
    /\ agent = AgentInit
    /\ run = RunInit
    /\ recon = ReconIdle
    /\ main = MainIdle
    /\ memory = MemoryIdle
    /\ structured = StructuredIdle
    /\ final = FinalIdle
    /\ \/ /\ adapter = AdapterIdle
          /\ \E st \in [{"code", "docs"} -> Ranked], k \in 0..MaxK, f \in Filters,
                bad \in SUBSET {"code", "docs"} :
                search = [SearchIdle EXCEPT !.pc = "call", !.store = st,
                                            !.requested = k, !.filter = f,
                                            !.failing = bad]
       \/ /\ search = SearchIdle
          /\ \E call \in AdapterCalls, bad \in SUBSET {"code", "docs"} :
                \E st \in SeqsUpTo(ChunksFor(call.op), MaxStored) :
                   adapter = [call EXCEPT !.store = st, !.failing = bad]

AdapterNext ==
    \/ SemanticSearch
    \/ SearchBySymbolName
    \/ RegexSearch
    \/ GetFileByPath

AdapterSpec == AdapterInit /\ [][AdapterNext]_vars

\* One process whose consumers load the configuration.
ConfigInit ==
    /\ agent = AgentInit
    /\ run = RunInit
    /\ search = SearchIdle
    /\ recon = ReconIdle
    /\ main = MainIdle
    /\ memory = MemoryIdle
    /\ adapter = AdapterIdle
    /\ structured = StructuredIdle
    /\ final = FinalIdle
    /\ \E raw \in RawConfigs : env = [EnvIdle EXCEPT !.raw = raw]

ConfigNext ==
    \/ LoadConfig
    \/ ClearConfigCache

ConfigSpec == ConfigInit /\ [][ConfigNext]_vars

\* One invocation of the regex_search tool on a store of a few chunks.
ToolInit ==
    /\ env = EnvIdle
    /\ agent = AgentInit
    /\ run = RunInit
    /\ search = SearchIdle
    /\ recon = ReconIdle
    /\ main = MainIdle
    /\ memory = MemoryIdle
    /\ structured = StructuredIdle
    /\ final = FinalIdle
    /\ \E p \in {<<"F">>, <<"(?i)", "f">>, <<"x">>, <<"(">>},
          bad \in SUBSET {"code", "docs"} :
          \E st \in SeqsUpTo(ChunksFor("regexSearch"), MaxStored) :
             adapter = [AdapterIdle EXCEPT !.pc = "call", !.op = "regex_search",
                                           !.pattern = p, !.store = st,
                                           !.failing = bad]

ToolNext == RegexSearchToolExecute

ToolSpec == ToolInit /\ [][ToolNext]_vars

\* One structured-output call of the planner or the evaluator.
ProviderInit ==
    /\ env = EnvIdle
    /\ agent = AgentInit
    /\ run = RunInit
    /\ search = SearchIdle
    /\ recon = ReconIdle
    /\ main = MainIdle
    /\ memory = MemoryIdle
    /\ adapter = AdapterIdle
    /\ final = FinalIdle
    /\ \E caller \in {"planFromQuery", "evaluate"}, provider \in Providers,
          raw \in RawOutputs :
          structured = [StructuredIdle EXCEPT !.pc = "call", !.caller = caller,
                                              !.provider = provider, !.raw = raw]

ProviderNext ==
    \/ PlannerCall
    \/ EvaluatorCall

ProviderSpec == ProviderInit /\ [][ProviderNext]_vars

\* One step and then the finalizer.
FinalInit ==
    /\ env = EnvIdle
    /\ agent = AgentInit
    /\ \E step \in PlanStep : run = Started(step)
    /\ search = SearchIdle
    /\ recon = ReconIdle
    /\ main = MainIdle
    /\ memory = MemoryIdle
    /\ adapter = AdapterIdle
    /\ structured = StructuredIdle
    /\ \E q \in Queries : final = [FinalIdle EXCEPT !.userQuery = q]

FinalNext ==
    \/ Chat
    \/ ExecuteTool
    \/ Summarize
    \/ FinalizerCall
    \/ FinalizerChat

FinalSpec == FinalInit /\ [][FinalNext]_vars

(***************************************************************************)
(* Properties of the plan/step loop.                                       *)
(***************************************************************************)
Terminated == agent.pc \in {"done", "failed"}

\* C1: after n step executions the outcome log has n entries and the i-th
\* entry's stepId is the id of the i-th step that was executed.
OutcomeLogMatchesExecutedSteps ==
    /\ Len(agent.outcomes) = Len(agent.executed)
    /\ \A i \in 1..Len(agent.outcomes) :
          agent.outcomes[i].stepId = agent.plan[agent.executed[i] + 1].id

\* C2: a revise decision leaves the steps at or before the cursor unchanged
\* in content and order, and the steps after the cursor become newSteps.
ReviseKeepsExecutedPrefix ==
    [][(agent.pc = "evaluate" /\ agent'.decision.decision = "revise") =>
          /\ Len(agent'.plan) >= agent.cursor + 1
          /\ \A i \in 1..(agent.cursor + 1) : agent'.plan[i] = agent.plan[i]
          /\ agent'.decision.newSteps.given =>
                SubSeq(agent'.plan, agent.cursor + 2, Len(agent'.plan))
                    = agent'.decision.newSteps.steps]_vars

\* a revise decision replaced the second step of a two-step plan
ReviseReplacedTail ==
    /\ Grows(agent.decision)
    /\ agent.initialLen = 2
    /\ agent.cursor = 1

\* C3: no plan position is handed to the step runner twice: the positions
\* executed are strictly increasing, and the position to execute next lies
\* beyond all of them.
NoStepExecutedTwice ==
    /\ \A i, j \in 1..Len(agent.executed) :
          i < j => agent.executed[i] < agent.executed[j]
    /\ agent.pc = "step" =>
          \A i \in 1..Len(agent.executed) : agent.executed[i] < agent.cursor

\* a second step has run, after a revise decision that added it
SecondStepAfterRevise ==
    /\ agent.pc = "evaluate"
    /\ Len(agent.executed) = 2
    /\ agent.revisions = 1

\* C4: with finitely many revise decisions the step loop ends, by the cursor
\* passing the last step or by a finalize decision (or the query fails in a
\* provider call), and once the loop has ended the finalizer is invoked
\* exactly once.
LoopEndsAndFinalizesOnce ==
    /\ <>(agent.pc \in {"finalize", "done", "failed"})
    /\ [](agent.pc = "finalize" => <>(agent.finalizerCalls = 1))
    /\ [](agent.finalizerCalls <= 1)
    /\ [](agent.pc = "done" => agent.finalizerCalls = 1)

\* the query is done after a revise decision, the finalizer invoked once
DoneAfterRevise ==
    /\ agent.pc = "done"
    /\ agent.revisions = 1
    /\ agent.finalizerCalls = 1

AtMostMaxTurnsCompletions ==
    /\ run.chatCalls <= maxTurns
    /\ run.pc = "chat" => run.chatCalls < maxTurns

\* the maxTurns-th completion asked for a tool and the loop stopped after it
StoppedAfterLastTurnWithTools ==
    /\ run.pc = "summarize"
    /\ run.chatCalls = maxTurns
    /\ run.messages[Len(run.messages)].role = "tool"
    /\ run.messages[Len(run.messages)].id[1] = maxTurns

\* C7: every invocation in the step loop, failing or not, appends one tool
\* result message for that invocation, which carries the error text when it
\* failed; no exception leaves the loop and the loop goes on.
ToolErrorsFedBack ==
    [][(run.pc = "tools" /\ run' # run /\ run.pending[run.i].kind # "null") =>
          LET call == run.pending[run.i]
              last == run'.messages[Len(run'.messages)]
          IN  /\ run'.pc \in {"tools", "chat", "summarize"}
              /\ run'.messages = Append(run.messages, last)
              /\ last.role = "tool"
              /\ last.id = call.id
              /\ call.kind = "unknown" => last.text = ToolNotFound
              /\ call.kind = "badjson" => last.text = SyntaxError
              /\ call.kind = "badargs" => last.text = ValidationFailed
              /\ call.kind = "valid" => last.text \in {"result", ExecuteFailed}
              /\ \/ run'.pc = "tools" /\ run'.i = run.i + 1
                 \/ run'.pc # "tools" /\ run.i = Len(run.pending)]_vars

\* an unregistered tool was answered with an error message and the loop went
\* on to a later invocation
WentOnAfterToolError ==
    \E k \in 1..Len(run.messages) :
        /\ run.messages[k].role = "tool"
        /\ run.messages[k].text = ToolNotFound
        /\ k < Len(run.messages)
        /\ run.messages[k + 1].role = "tool"
        /\ run.messages[k + 1].text = "result"

(***************************************************************************)
(* Properties of semantic search.                                          *)
(***************************************************************************)
\* i-th and j-th hit are in non-increasing order of score 1 / (1 + distance)
Ordered(hits) ==
    \A i, j \in 1..Len(hits) :
        i < j => hits[i].score[1] * hits[j].score[2]
                    >= hits[j].score[1] * hits[i].score[2]

\* C8: semantic search returns at most K hits, K the requested topK or the
\* configured default when none is given, ordered by non-increasing score.
AtMostKByScore ==
    search.pc \in {"searched", "compared"} =>
        /\ Len(search.result) <=
              (IF search.requested = 0 THEN topK ELSE search.requested)
        /\ Ordered(search.result)

\* both collections contributed and the merged hits were cut to K
MergedAndTruncated ==
    /\ search.pc = "searched"
    /\ search.requested = 2
    /\ Len(search.result) = 2
    /\ search.result[1].collectionName = "docs"
    /\ search.result[2].collectionName = "code"
    /\ Len(search.store["code"]) = 2

Range(seq) == {seq[i] : i \in 1..Len(seq)}

\* C9 as stated: with one collection removed, the result holds no hit that
\* was absent from the result with the collection present.
RemovalInjectsNoHit ==
    search.pc = "compared" => Range(search.reduced) \subseteq Range(search.result)

\* C9 as amended: with one collection removed, the result holds no hit of
\* the removed collection; the hits of the other collections that were in the
\* result are still there, first and in the same order; and a hit that is
\* there only after the removal is one that the truncation to K had cut off:
\* the result was full and none of its hits scored lower.
RemovalOnlyAdmitsTruncatedHits ==
    search.pc = "compared" =>
        LET kept == SelectSeq(search.result,
                              LAMBDA h : h.collectionName # search.removed)
        IN  /\ \A h \in Range(search.reduced) :
                  h.collectionName # search.removed
            /\ Len(kept) <= Len(search.reduced)
            /\ SubSeq(search.reduced, 1, Len(kept)) = kept
            /\ \A h \in Range(search.reduced) \ Range(search.result) :
                  /\ Len(search.result) =
                        (IF search.requested = 0 THEN topK ELSE search.requested)
                  /\ \A g \in Range(search.result) :
                        g.score[1] * h.score[2] >= h.score[1] * g.score[2]

\* removing a collection let a hit of the other collection into the result
RemovalAdmittedHit ==
    /\ search.pc = "compared"
    /\ Range(search.reduced) \ Range(search.result) # {}
    /\ Range(search.result) \ Range(search.reduced) # {}

(***************************************************************************)
(* Properties of split-node reconstruction.                                *)
(***************************************************************************)
\* C10: reconstructing a reconstructed hit list changes nothing: the same
\* hits with the same text and line ranges, in the same order.
ReconstructionIdempotent ==
    recon.pc = "twice" => recon.twice = recon.once

\* a list in which two fragments were merged, next to a hit of another unit,
\* was reconstructed twice
MergedListReconstructedTwice ==
    /\ recon.pc = "twice"
    /\ Len(recon.hits) = 3
    /\ Len(recon.once) = 2
    /\ \E i \in 1..2 : recon.once[i].lineStart = 1 /\ recon.once[i].lineEnd = 9
                          /\ Len(recon.once[i].chunkId) = 3

(***************************************************************************)
(* Properties of the duplicate-query cache and of main.                    *)
(***************************************************************************)
\* the similarities of the new query's embedding e to the stored user turns
\* that have a saved embedding
StoredSimilarities(m, e) ==
    {cosineSimilarity(e.vec, m.history[i].embedding.vec) :
        i \in {j \in 1..Len(m.history) :
                  m.history[j].role = "user" /\ m.history[j].embedding.given}}

\* similarity dot / sqrt(nn) is strictly above, or strictly below, p / q
AboveThreshold(s, t) == s[1] * s[1] * t[2] * t[2] > t[1] * t[1] * s[2]
BelowThreshold(s, t) == s[1] * s[1] * t[2] * t[2] < t[1] * t[1] * s[2]

\* the answer printed is the response of a stored assistant turn
CachedAnswerPrinted ==
    /\ main.pc = "returned"
    /\ Len(main.stdout) = 1
    /\ main.stdout[1].kind = "cached"
    /\ \E i \in 1..Len(memory.history) :
          /\ memory.history[i].role = "assistant"
          /\ memory.history[i].id = main.stdout[1].id

\* C11 as stated: with memory enabled, a stored similarity above the
\* threshold makes the query return the cached response, and no planning,
\* step or finalization takes place; with every stored similarity below the
\* threshold, planning proceeds.
CacheShortCircuits ==
    /\ [][(main.pc = "memory" /\ main.memoryEnabled /\ main.embedding.given) =>
            LET sims == StoredSimilarities(memory, main.embedding)
                t == memory.config.memoryCacheThreshold
            IN  /\ (\E x \in sims : AboveThreshold(x, t)) =>
                      CachedAnswerPrinted' /\ agent' = AgentInit
                /\ (\A x \in sims : BelowThreshold(x, t)) => main'.pc = "agent"]_vars
    /\ [](CachedAnswerPrinted => agent = AgentInit)

\* C11 as amended: the same, for a threshold greater than 0 (a threshold of 0
\* switches the cache off).
CacheShortCircuitsWhenSwitchedOn ==
    /\ [][(main.pc = "memory" /\ main.memoryEnabled /\ main.embedding.given) =>
            LET sims == StoredSimilarities(memory, main.embedding)
                t == memory.config.memoryCacheThreshold
            IN  /\ (t[1] > 0 /\ \E x \in sims : AboveThreshold(x, t)) =>
                      CachedAnswerPrinted' /\ agent' = AgentInit
                /\ (\A x \in sims : BelowThreshold(x, t)) => main'.pc = "agent"
                /\ t[1] = 0 => main'.pc = "agent"]_vars
    /\ [](CachedAnswerPrinted => agent = AgentInit)

\* the second of two stored queries matched and its response was printed
CachedSecondResponse ==
    /\ CachedAnswerPrinted
    /\ memory.appended = 2
    /\ main.stdout[1].id = 2
    /\ Len(memory.history) = 3


(***************************************************************************)
(* Properties of the turn log.                                             *)
(***************************************************************************)
\* the p-th turn appended to the log: the user turn of a save, then its
\* assistant turn
AppendedKey(p) == <<IF p % 2 = 1 THEN "user" ELSE "assistant", (p + 1) \div 2>>

\* C12: after every save with retention size R the log holds exactly the
\* min(R, total appended) most recently appended turns, in the order they
\* were appended and as they were appended.
LogHoldsMostRecentTurns ==
    /\ [](LET total == 2 * memory.appended
              R == memory.config.historyRetentionSize
              n == IF R < total THEN R ELSE total
          IN  /\ Len(memory.history) = n
              /\ \A k \in 1..n :
                    <<memory.history[k].role, memory.history[k].id>>
                        = AppendedKey(total - n + k))
    /\ [][\A k \in 1..Len(memory'.history) :
             memory'.history[k].id <= memory.appended =>
                \E j \in 1..Len(memory.history) :
                    memory.history[j] = memory'.history[k]]_vars

\* retention size 2 and three saves: the two turns of the third save remain
ThreeSavesTwoRetained ==
    /\ memory.config.historyRetentionSize = 2
    /\ memory.appended = 3
    /\ Len(memory.history) = 2
    /\ memory.history[1].id = 3


\* C13: with summarization enabled no turn is dropped by the retention limit
\* unless it was first folded into the rolling summary, so the summary is
\* non-empty whenever a turn has been dropped.
DroppedTurnsWereSummarized ==
    memory.config.memorySummarizationEnabled =>
        /\ memory.dropped \subseteq memory.summarized
        /\ memory.dropped # {} => memory.summary > 0

(***************************************************************************)
(* Properties of the adapter's multi-collection operations.                *)
(***************************************************************************)
\* the collection whose backend call fails, when exactly one does
FailingCollection(failing) == CHOOSE c \in failing : TRUE

\* what the adapter operation returns or throws when it is run over the
\* collections other than c and no backend call fails
OutcomeWithout(a, c) ==
    CASE a.op = "searchBySymbolName" ->
            searchBySymbolName(Without(c), a.store, {}, a.symbol, a.filePaths)
      [] a.op = "regexSearch" ->
            regexSearch(Without(c), a.store, {}, a.pattern, a.filePaths)
      [] a.op = "getFileByPath" ->
            getFileByPath(Without(c), a.store, {}, a.filePath)

\* the finished operation gave what the remaining collections contribute
RemainingCollectionsContribute ==
    /\ (adapter.pc = "done" /\ Cardinality(adapter.failing) = 1)
            => adapter.outcome
                 = OutcomeWithout(adapter, FailingCollection(adapter.failing))
    /\ (search.pc = "searched" /\ Cardinality(search.failing) = 1)
            => search.result
                 = semanticSearch(Without(FailingCollection(search.failing)),
                                  search.store, search.requested, search.filter, {})

\* C14 as stated: when one collection's backend call fails, symbol, regex and
\* semantic search and file retrieval complete and return exactly what the
\* remaining collections contribute; no error reaches the caller (the search
\* patterns being regular expressions)
FailureIsolatedAndReturns ==
    /\ RemainingCollectionsContribute
    /\ (/\ adapter.pc = "done"
        /\ Cardinality(adapter.failing) = 1
        /\ WellFormed(adapter.pattern))
            => ~adapter.outcome.threw

\* C14: when one collection's backend call fails, the operation gives exactly
\* what it gives over the remaining collections alone: the searches return
\* the remaining collections' hits, and file retrieval returns their chunks
\* of the file or, when they hold none, raises its own not-found error; the
\* failure of the collection itself never reaches the caller (the one other
\* error is that of a search pattern that is no regular expression)
FailureIsolated ==
    /\ RemainingCollectionsContribute
    /\ (adapter.pc = "done" /\ Cardinality(adapter.failing) = 1)
            => /\ adapter.outcome.threw
                    <=> \/ /\ adapter.op = "getFileByPath"
                           /\ \A i \in 1..Len(adapter.store) :
                                \/ adapter.store[i].collectionName \in adapter.failing
                                \/ adapter.store[i].path # adapter.filePath
                        \/ /\ adapter.op = "regexSearch"
                           /\ ~WellFormed(adapter.pattern)
               /\ adapter.outcome.threw
                    => adapter.outcome.error
                         = (IF adapter.op = "getFileByPath" THEN "File not found"
                            ELSE "Invalid regular expression")

\* a symbol search came back with the hit of the second collection although
\* the first collection, which holds a matching chunk too, failed
SymbolSearchSurvivedFailure ==
    /\ adapter.pc = "done"
    /\ adapter.op = "searchBySymbolName"
    /\ adapter.failing = {"code"}
    /\ Len(adapter.store) = 2
    /\ adapter.store[1].collectionName = "code"
    /\ adapter.store[1].className = <<"F">>
    /\ ~adapter.outcome.threw
    /\ Len(adapter.outcome.value) = 1
    /\ adapter.outcome.value[1].collectionName = "docs"

\* no chunk is stored: every collection is empty
NoChunks == adapter.store = <<>>

\* C15: regexSearch for a pattern that is a regular expression (the scenario's
\* "not-a-class" is one), run while the collections hold no chunks, returns
\* an empty hit list and raises no error
RegexSearchOfEmptyCollection ==
    (/\ adapter.pc = "done"
     /\ adapter.op = "regexSearch"
     /\ WellFormed(adapter.pattern)
     /\ NoChunks)
        => adapter.outcome = Returned(<<>>)

\* the scenario: a literal pattern that matches nothing was searched for in
\* empty collections, no backend call failing
SearchedEmptyCollections ==
    /\ adapter.pc = "done"
    /\ adapter.op = "regexSearch"
    /\ adapter.pattern = <<"x">>
    /\ adapter.failing = {}
    /\ NoChunks
    /\ adapter.outcome.value = <<>>

(***************************************************************************)
(* Properties of a step's structured outcome.                              *)
(***************************************************************************)
\* C19: when asking for a step's structured outcome fails, runStep returns an
\* outcome with status failed, the id of the step that was run, and a summary
\* that carries the text of the error; the exception does not leave runStep
FailedStepOutcomeRecorded ==
    run.thrown # ""
        => /\ run.pc = "returned"
           /\ run.outcome.status = "failed"
           /\ run.outcome.stepId = run.step.id
           /\ \E i \in 1..Len(run.outcome.summary) :
                 run.outcome.summary[i] = run.thrown

\* the second step of a plan used its tools and then lost its outcome to a
\* provider error
SecondStepOutcomeFailed ==
    /\ run.pc = "returned"
    /\ run.step.id = 2
    /\ run.toolCalls > 0
    /\ run.thrown = "Error: no valid JSON"
    /\ run.outcome.stepId = 2

(***************************************************************************)
(* Properties of the end of a query.                                       *)
(***************************************************************************)
\* finalize() threw: the one call of the finalizer failed
FinalizerFailed == agent.pc = "failed" /\ agent.finalizerCalls > 0

MalformedDecisionBecomesContinue ==
    (/\ structured.pc = "done"
     /\ structured.caller = "evaluate"
     /\ ~Conforms("PlanDecisionSchema", structured.raw))
        => /\ ~structured.result.threw
           /\ structured.result.value.decision = "continue"

\* C20: the plan planFromQuery returns has at least one step, whatever the
\* provider
PlannerPlanNonEmpty ==
    (/\ structured.pc = "done"
     /\ structured.caller = "planFromQuery"
     /\ ~structured.result.threw)
        => structured.result.value.steps # <<>>

(***************************************************************************)
(* Properties of the finalizer.                                            *)
(***************************************************************************)
\* the finalizer has been called and has not come back
FinalizerRuns == final.pc = "chat"

\* C16: while the finalizer runs no tool is invoked and no retrieval query is
\* issued: the model is offered no tool, no tool call of its response is
\* executed, the step loop and the retrieval adapter stand still, and the
\* prompt the answer is produced from is made of the outcome log and the
\* original query alone
FinalizerUsesNoTool ==
    /\ [](final.pc # "idle"
            => /\ final.tools = <<>>
               /\ final.invoked = <<>>
               /\ final.allOutcomes = <<run.outcome>>
               /\ final.prompt = FinalizerPrompt(<<run.outcome>>, final.userQuery))
    /\ [][FinalizerRuns => UNCHANGED <<run, search, adapter>>]_vars

\* the step used a tool, and the finalizer answered although the model's
\* response asked for a tool
AnsweredWithoutRunningTool ==
    /\ run.pc = "returned"
    /\ \E i \in 1..Len(run.messages) : run.messages[i].role = "tool"
    /\ final.pc = "returned"
    /\ final.answer = <<"answer">>
    /\ final.invoked = <<>>

(***************************************************************************)
(* Properties of symbol search and file retrieval.                         *)
(***************************************************************************)
\* the {path, className, methodName} combination of a hit or a stored chunk
Unit(h) == <<h.path, h.className, h.methodName>>

\* chunk i of the store is found by the symbol search: its collection
\* answers and the chunk passes the where clause
FoundBySymbol(a, i) ==
    /\ a.store[i].collectionName \notin a.failing
    /\ Satisfies(a.store[i], [NoWhere EXCEPT !.op = "searchBySymbolName",
                                             !.symbol = a.symbol,
                                             !.filePaths = a.filePaths])

\* the places of the found chunks that belong to unit u
FoundOfUnit(a, u) ==
    {i \in 1..Len(a.store) : FoundBySymbol(a, i) /\ Unit(a.store[i]) = u}

\* C21: the hit list of symbol search holds at most one hit for each
\* {path, className, methodName} combination, and a found unit that is
\* stored as a single chunk comes back as exactly one hit, with that chunk's
\* id and line range
OneHitPerUnit ==
    (adapter.pc = "done" /\ adapter.op = "searchBySymbolName")
        => LET hits == adapter.outcome.value
           IN  /\ ~adapter.outcome.threw
               /\ \A i, j \in 1..Len(hits) : Unit(hits[i]) = Unit(hits[j]) => i = j
               /\ \A i \in 1..Len(adapter.store) :
                     FoundOfUnit(adapter, Unit(adapter.store[i])) = {i}
                        => \E k \in 1..Len(hits) :
                              /\ Unit(hits[k]) = Unit(adapter.store[i])
                              /\ hits[k].chunkId = <<i>>
                              /\ hits[k].lineStart = adapter.store[i].lines[1]
                              /\ hits[k].lineEnd = adapter.store[i].lines[2]

\* a class and a method of it, each stored as one chunk, came back as two
\* hits
TwoUnitsTwoHits ==
    /\ adapter.pc = "done"
    /\ adapter.op = "searchBySymbolName"
    /\ Len(adapter.store) = 2
    /\ FoundOfUnit(adapter, <<<<"a">>, <<"F">>, <<>>>>) = {1}
    /\ FoundOfUnit(adapter, <<<<"a">>, <<"F">>, <<"m">>>>) = {2}
    /\ Len(adapter.outcome.value) = 2

(***************************************************************************)
(* Properties of the merged hit.                                           *)
(***************************************************************************)
\* the places in hits of the members of the unit of hit h
Members(hits, h) == {i \in 1..Len(hits) : Unit(hits[i]) = Unit(h)}

\* C22: when several hits share {path, className, methodName}, the merged
\* hit's text is the members' texts, each once, joined by newlines in
\* ascending start-line order, and its line range runs from the smallest
\* member start line to the largest member end line
MergedInLineOrder ==
    recon.pc \in {"once", "twice"}
        => \A k \in 1..Len(recon.once) :
              LET members == Members(recon.hits, recon.once[k])
                  n == Cardinality(members)
                  text == recon.once[k].text
              IN  n > 1
                    => /\ Len(text) = 2 * n - 1
                       /\ \A p \in 1..(n - 1) : text[2 * p] = "\n"
                       /\ {text[2 * p - 1] : p \in 1..n} = members
                       /\ \A p \in 1..(n - 1) :
                             recon.hits[text[2 * p - 1]].lineStart
                                <= recon.hits[text[2 * p + 1]].lineStart
                       /\ \A i \in members :
                             /\ recon.once[k].lineStart <= recon.hits[i].lineStart
                             /\ recon.once[k].lineEnd >= recon.hits[i].lineEnd
                       /\ \E i \in members :
                             recon.once[k].lineStart = recon.hits[i].lineStart
                       /\ \E i \in members :
                             recon.once[k].lineEnd = recon.hits[i].lineEnd

\* two fragments of one method, the later lines first, were merged into one
\* hit that starts with the earlier fragment
FragmentsMergedInOrder ==
    /\ recon.pc = "once"
    /\ Len(recon.hits) = 2
    /\ recon.hits[1].methodName = <<"m">>
    /\ recon.hits[1].lineStart = 5
    /\ recon.hits[2].lineStart = 1
    /\ Len(recon.once) = 1
    /\ recon.once[1].text = <<2, "\n", 1>>
    /\ recon.once[1].lineStart = 1
    /\ recon.once[1].lineEnd = 9

(***************************************************************************)
(* Properties of the truncation of semantic search.                        *)
(***************************************************************************)
\* the candidates of a search, by chunk id: of every collection that is
\* queried and answers, those of its k nearest chunks that pass the
\* client-side path filter
Candidates(s) ==
    LET k == IF s.requested = 0 THEN topK ELSE s.requested
    IN  {id \in {"code", "docs"} \X (1..MaxChunks) :
        /\ s.filter.collectionName \in {"", id[1]}
        /\ id[1] \notin s.failing
        /\ id[2] <= Len(s.store[id[1]])
        /\ id[2] <= k
        /\ s.filter.relativePath # <<>>
              => Includes(s.store[id[1]][id[2]].path, s.filter.relativePath)}

\* C23: the result of semantic search is the K best-scoring hits of the
\* union of the queried collections' candidates, all of them if there are
\* fewer than K: each returned hit is a candidate, returned once, and no
\* candidate left out scores strictly higher than a returned hit
TopKOfUnion ==
    search.pc \in {"searched", "compared"}
        => LET k == IF search.requested = 0 THEN topK ELSE search.requested
               cands == Candidates(search)
               ids == {search.result[i].chunkId : i \in 1..Len(search.result)}
           IN  /\ ids \subseteq cands
               /\ Cardinality(ids) = Len(search.result)
               /\ Len(search.result)
                     = (IF Cardinality(cands) < k THEN Cardinality(cands) ELSE k)
               /\ \A c \in cands \ ids : \A i \in 1..Len(search.result) :
                     ~ScoreAbove(Score(search.store[c[1]][c[2]].dist),
                                 search.result[i].score)

\* each collection had two candidates, K was 2, and the result took one
\* candidate of each collection and left the other two out
BestOfEachCollectionKept ==
    /\ search.pc = "searched"
    /\ search.requested = 2
    /\ Cardinality(Candidates(search)) = 4
    /\ Len(search.result) = 2
    /\ search.result[1].collectionName # search.result[2].collectionName

(***************************************************************************)
(* Properties of the transcript of a step.                                 *)
(***************************************************************************)
\* the ids of the invocations among the first n tool calls of an assistant
\* message, in the order requested (an empty entry is no invocation)
RECURSIVE InvocationIds(_, _)
InvocationIds(calls, n) ==
    IF n = 0 THEN <<>>
    ELSE IF calls[n].kind = "null" THEN InvocationIds(calls, n - 1)
    ELSE Append(InvocationIds(calls, n - 1), calls[n].id)

\* the ids of the tool messages that follow message p up to the next message
\* that is no tool message
RECURSIVE ResultIds(_, _)
ResultIds(messages, p) ==
    IF p >= Len(messages) \/ messages[p + 1].role # "tool" THEN <<>>
    ELSE <<messages[p + 1].id>> \o ResultIds(messages, p + 1)

\* C24: the tool invocations of one model turn are executed one at a time in
\* the order requested, and the transcript holds, right after the assistant
\* message that requested them, exactly one result message per invocation
\* executed so far, in the order requested, each with its invocation's id;
\* when the turn is over that is one per invocation requested
ResultsFollowRequestsInOrder ==
    \A p \in 1..Len(run.messages) :
        run.messages[p].role = "assistant"
            => LET calls == run.messages[p].tool_calls
                   running == /\ run.pc = "tools"
                              /\ run.messages[p].id[1] = run.turnCount
                   done == IF running THEN run.i - 1 ELSE Len(calls)
               IN  /\ running => run.pending = calls
                   /\ ResultIds(run.messages, p) = InvocationIds(calls, done)

\* two invocations of one turn were answered in the order requested, the
\* first with an error, and the loop went on to another turn
TwoResultsInOrder ==
    \E p \in 1..Len(run.messages) :
        /\ run.messages[p].role = "assistant"
        /\ Len(run.messages[p].tool_calls) = 2
        /\ p + 3 <= Len(run.messages)
        /\ run.messages[p + 1].id = run.messages[p].tool_calls[1].id
        /\ run.messages[p + 1].text = ExecuteFailed
        /\ run.messages[p + 2].id = run.messages[p].tool_calls[2].id
        /\ run.messages[p + 3].role = "assistant"

(***************************************************************************)
(* Properties of file retrieval.                                           *)
(***************************************************************************)
\* the places of the chunks that the collections yield for the exact path
YieldedForPath(a) ==
    {i \in 1..Len(a.store) : /\ \E n \in DOMAIN CollectionNames :
                                   a.store[i].collectionName = CollectionNames[n]
                             /\ a.store[i].collectionName \notin a.failing
                             /\ a.store[i].path = a.filePath}

\* the orders of the places `found` in which the start lines never descend
AscendingOrders(a, found) ==
    {o \in [1..Cardinality(found) -> found] :
        /\ \A x, y \in DOMAIN o : o[x] = o[y] => x = y
        /\ \A x, y \in DOMAIN o :
              x < y => a.store[o[x]].lines[1] <= a.store[o[y]].lines[1]}

\* C25: file retrieval raises its not-found error exactly when no collection
\* yields a chunk of the exact path; otherwise it returns the texts of all
\* the chunks found in all collections, joined in ascending start-line order
FileIsAllChunksInLineOrder ==
    (adapter.pc = "done" /\ adapter.op = "getFileByPath")
        => LET found == YieldedForPath(adapter)
           IN  /\ adapter.outcome.threw <=> found = {}
               /\ adapter.outcome.threw => adapter.outcome.error = "File not found"
               /\ ~adapter.outcome.threw
                     => \E o \in AscendingOrders(adapter, found) :
                           adapter.outcome.value =
                              Join([x \in DOMAIN o |-> adapter.store[o[x]].doc],
                                   <<"\n", "\n">>)

\* a file whose later chunk is stored in the collection asked first was
\* returned with its chunks of both collections in line order
FileJoinedAcrossCollections ==
    /\ adapter.pc = "done"
    /\ adapter.op = "getFileByPath"
    /\ ~adapter.outcome.threw
    /\ Len(adapter.store) = 2
    /\ YieldedForPath(adapter) = {1, 2}
    /\ adapter.store[1].collectionName # adapter.store[2].collectionName
    /\ adapter.store[1].lines[1] > adapter.store[2].lines[1]
    /\ adapter.store[1].doc # adapter.store[2].doc

(***************************************************************************)
(* Properties of saving a turn.                                            *)
(***************************************************************************)
\* C26: when the query embedding could not be generated while saving, the
\* user turn (without an embedding) and the assistant turn were appended all
\* the same, the assistant turn is the last of the history, the user turn
\* stands right before it unless the retention limit has dropped it, and the
\* log file was rewritten with the history unless the write itself failed
EmbeddingFailureDoesNotBlockSave ==
    "Failed to generate embedding" \in memory.log
        => LET id == memory.appended
               n == Len(memory.history)
           IN  /\ n >= 1
               /\ memory.history[n].role = "assistant"
               /\ memory.history[n].id = id
               /\ IF n >= 2
                  THEN /\ memory.history[n - 1].role = "user"
                       /\ memory.history[n - 1].id = id
                       /\ memory.history[n - 1].embedding = NoEmbedding
                  ELSE <<"user", id>> \in memory.dropped
               /\ "Failed to save history" \notin memory.log
                     => memory.file = [exists |-> TRUE,
                                       history |-> Stringified(memory.history),
                                       summary |-> memory.summary]

\* a turn saved without its embedding is in the history and in the file,
\* behind the answer of an earlier turn
SavedWithoutEmbedding ==
    /\ memory.log = {"Failed to generate embedding"}
    /\ Len(memory.history) = 3
    /\ memory.history[1].role = "assistant"
    /\ memory.history[2].role = "user"
    /\ ~memory.history[2].embedding.given
    /\ memory.file.exists
    /\ memory.file.history = Stringified(memory.history)

(***************************************************************************)
(* Properties of the configuration.                                        *)
(***************************************************************************)
\* the environment passes the schema and the provider-credential checks
ValidConfiguration(raw) ==
    /\ raw.provider \in {"", "openai", "anthropic", "azure_openai", "google"}
    /\ raw.model
    /\ raw.provider \in {"", "openai"} => raw.openaiApiKey
    /\ raw.provider = "anthropic" => raw.anthropicApiKey
    /\ raw.provider = "azure_openai"
          => raw.azureOpenAIApiKey /\ raw.azureOpenAIEndpoint
    /\ raw.provider = "google" => raw.googleApiKey
    /\ \/ raw.embeddingApiKey
       \/ raw.embeddingProvider = "openai" /\ raw.openaiApiKey
       \/ raw.embeddingProvider = "google" /\ raw.googleApiKey

\* C27: a configuration that fails the schema or the provider-credential
\* checks is never returned by loadConfig, neither by the call that detects
\* the failure nor by a later call in the same process
InvalidConfigNeverReturned ==
    (env.calls > 0 /\ ~env.outcome.threw) => ValidConfiguration(env.raw)

\* the places of the tool messages that report a tool's execute(), finished
\* or failed, between places a and b of the transcript
Executions(messages, a, b) ==
    {q \in a..b : /\ q <= Len(messages)
                  /\ messages[q].role = "tool"
                  /\ messages[q].text \in {"result", ExecuteFailed}}

\* C28: every model turn of the step loop leads to at most one tool
\* execution, and a step executes at most maxTurns tool invocations in all
OneExecutionPerTurn ==
    /\ \A p \in 1..Len(run.messages) :
          run.messages[p].role = "assistant"
             => Cardinality(Executions(run.messages, p + 1,
                    p + Len(ResultIds(run.messages, p)))) <= 1
    /\ Cardinality(Executions(run.messages, 1, Len(run.messages))) <= maxTurns

(***************************************************************************)
(* Properties of the planner's failures.                                   *)
(***************************************************************************)
\* C29: when the planner's model call fails or its output is no plan of the
\* schema, planFromQuery does not raise: it returns a plan, of at least one
\* step
PlannerDegradesToDefaultPlan ==
    (/\ structured.pc = "done"
     /\ structured.caller = "planFromQuery"
     /\ ~Conforms("PlanSchema", structured.raw))
        => /\ ~structured.result.threw
           /\ structured.result.value.kind = "steps"
           /\ structured.result.value.steps # <<>>

(***************************************************************************)
(* Properties of the filter of semantic search.                            *)
(***************************************************************************)
\* hit h has what field `given` of the filter asks for, when it asks
FieldHolds(given, had) == given # "" => had = given

\* C30: every hit semantic search returns satisfies every field of the
\* caller's filter: collection, path, module, category, package, class,
\* chunk type and language
HitsSatisfyFilter ==
    search.pc = "searched"
        => \A i \in 1..Len(search.result) :
              LET h == search.result[i]
                  f == search.filter
              IN  /\ FieldHolds(f.collectionName, h.collectionName)
                  /\ f.relativePath # <<>> => Includes(h.path, f.relativePath)
                  /\ FieldHolds(f.module, h.metadata.module)
                  /\ FieldHolds(f.category, h.metadata.category)
                  /\ FieldHolds(f.package, h.metadata.package)
                  /\ FieldHolds(f.className, h.metadata.className)
                  /\ FieldHolds(f.chunkType, h.metadata.chunkType)
                  /\ FieldHolds(f.language, h.metadata.language)

(***************************************************************************)
(* Properties of the step that follows a revise decision.                  *)
(***************************************************************************)
\* C31: after a revise decision with non-empty newSteps the loop goes on at
\* the position right behind the step just evaluated, which holds the first
\* element of newSteps, and nothing but newSteps lies behind that step any
\* more; the step executed next is that first element, at a position beyond
\* every position executed before
FirstNewStepRunsNext ==
    [][/\ (agent.pc = "evaluate" /\ Grows(agent'.decision))
            => /\ agent'.pc = "step"
               /\ agent'.cursor = agent.cursor + 1
               /\ agent'.plan[agent'.cursor + 1]
                     = agent'.decision.newSteps.steps[1]
               /\ Len(agent'.plan)
                     = agent.cursor + 1 + Len(agent'.decision.newSteps.steps)
       /\ (agent.pc = "step" /\ agent'.pc = "evaluate" /\ Grows(agent.decision))
            => LET n == Len(agent'.executed)
               IN  /\ n = Len(agent.executed) + 1
                   /\ agent.plan[agent'.executed[n] + 1]
                         = agent.decision.newSteps.steps[1]
                   /\ \A i \in 1..(n - 1) :
                         agent'.executed[i] < agent'.executed[n]]_vars

\* the first of the new steps has run in place of the second step of the
\* initial plan
NewStepRanInPlaceOfTail ==
    /\ agent.pc = "evaluate"
    /\ agent.initialLen = 2
    /\ agent.revisions = 1
    /\ agent.executed = <<0, 1>>
    /\ Len(agent.outcomes) = 2

(***************************************************************************)
(* Properties of the regex_search tool.                                    *)
(***************************************************************************)
\* C32: a pattern with the leading prefix (?i) submitted through the
\* regex_search tool is not rejected: the tool returns the chunks whose
\* document matches the rest of the pattern without regard to case
ToolHonoursCaseFlag ==
    (/\ adapter.pc = "done"
     /\ adapter.op = "regex_search"
     /\ adapter.pattern # <<>>
     /\ Head(adapter.pattern) = "(?i)")
        => /\ ~adapter.outcome.threw
           /\ {adapter.outcome.value[k].chunkId :
                   k \in 1..Len(adapter.outcome.value)}
                = {<<i>> : i \in {j \in 1..Len(adapter.store) :
                      /\ adapter.store[j].collectionName \notin adapter.failing
                      /\ Includes(Lower(adapter.store[j].doc),
                                  Lower(Tail(adapter.pattern)))}}

(***************************************************************************)
(* Properties of the cache lookup among several stored queries.            *)
(***************************************************************************)
\* the stored user turns that carry an embedding whose cosine similarity to
\* the query embedding e reaches the threshold
ReachingTurns(m, e) ==
    {i \in 1..Len(m.history) :
        /\ m.history[i].role = "user"
        /\ m.history[i].embedding.given
        /\ ~BelowThreshold(cosineSimilarity(e.vec, m.history[i].embedding.vec),
                           m.config.memoryCacheThreshold)}

\* a >= b for two similarities
AtLeastAsSimilar(a, b) == a[1] * a[1] * b[2] >= b[1] * b[1] * a[2]

\* C33: when several stored user turns reach the threshold, the cached
\* response returned is the assistant turn right behind a stored user turn
\* whose cosine similarity to the query is the highest of all
MostSimilarTurnAnswers ==
    [][(/\ main.pc = "memory"
        /\ main.embedding.given
        /\ Cardinality(ReachingTurns(memory, main.embedding)) >= 2
        /\ main'.pc = "returned")
         => \E i \in ReachingTurns(memory, main.embedding) :
               /\ \A j \in ReachingTurns(memory, main.embedding) :
                     AtLeastAsSimilar(
                        cosineSimilarity(main.embedding.vec,
                                         memory.history[i].embedding.vec),
                        cosineSimilarity(main.embedding.vec,
                                         memory.history[j].embedding.vec))
               /\ i < Len(memory.history)
               /\ memory.history[i + 1].role = "assistant"
               /\ main'.stdout[Len(main'.stdout)]
                     = [kind |-> "cached", id |-> memory.history[i + 1].id]]_vars

\* of three stored queries the second is the most similar one, the first
\* reaches the threshold with a lower similarity, and the second response
\* was returned
SecondOfThreeAnswered ==
    /\ main.pc = "returned"
    /\ Len(memory.history) = 6
    /\ memory.config.memoryCacheThreshold = <<1, 2>>
    /\ memory.history[1].embedding = [given |-> TRUE, vec |-> <<1, 1>>]
    /\ memory.history[3].embedding = [given |-> TRUE, vec |-> <<1, 0>>]
    /\ memory.history[5].embedding = [given |-> TRUE, vec |-> <<1, 1>>]
    /\ main.stdout = <<[kind |-> "cached", id |-> 2]>>

(***************************************************************************)
(* Properties of the persisted log across one query.                       *)
(***************************************************************************)
\* C34: the conversation manager and its file change only in the step in
\* which runAgent has returned the final answer and that answer is printed;
\* standard output only grows, and a query that has failed or was answered
\* from the cache has no final answer on it, so the stored turns and the
\* rolling summary are then what they were when the query started
LogChangesOnlyWithFinalAnswer ==
    /\ [][memory' # memory
            => /\ main.pc = "agent"
               /\ agent.pc = "done"
               /\ main.memoryEnabled
               /\ main'.pc = "returned"
               /\ main'.stdout
                     = Append(main.stdout,
                              [kind |-> "final", id |-> memory'.appended])]_vars
    /\ [][\/ main'.stdout = main.stdout
          \/ /\ Len(main'.stdout) = Len(main.stdout) + 1
             /\ SubSeq(main'.stdout, 1, Len(main.stdout)) = main.stdout]_vars
    /\ []((main.pc = "exit1" \/ CachedAnswerPrinted)
             => \A k \in 1..Len(main.stdout) : main.stdout[k].kind # "final")

\* a query that ran its steps and then failed has exited with two earlier
\* saves still on file
FailedQueryLeftLog ==
    /\ main.pc = "exit1"
    /\ main.memoryEnabled
    /\ agent.pc = "failed"
    /\ Len(agent.outcomes) > 0
    /\ memory.appended = 2
    /\ memory.file.exists
    /\ memory.file.history = Stringified(memory.history)
    /\ Len(memory.file.history) = 3

(***************************************************************************)
(* Properties of the history file read back.                               *)
(***************************************************************************)
\* C35: a conversation manager constructed after a save (a save is a
\* saveTurn whose persist() wrote the history file) holds the ordered turns,
\* with their embeddings, and the rolling summary that the saving manager
\* held at the end of the save
RoundTripOfWrittenSave ==
    [][(/\ memory'.appended = memory.appended
        /\ memory.appended > 0
        /\ "Failed to save history" \notin memory.log)
         => /\ memory'.history = memory.history
            /\ memory'.summary = memory.summary]_vars

\* a manager constructed from the file holds three turns, the second with
\* its embedding, and a rolling summary
LoadedTurnsAndSummary ==
    /\ memory.loaded
    /\ memory.appended = 2
    /\ Len(memory.history) = 3
    /\ memory.history[2].role = "user"
    /\ memory.history[2].embedding = [given |-> TRUE, vec |-> <<1, 0>>]
    /\ memory.summary > 0
    /\ memory.log = {}

(***************************************************************************)
(* Properties of a failing completion inside the tool loop.                *)
(***************************************************************************)
\* C36: a call of llm.chat in the tool loop that gives no completion ends
\* runStep with the error thrown: the messages stay as they were, no
\* structured outcome is requested afterwards (nothing more happens in the
\* step), and runStep has returned no outcome, not even a failed one
ChatFailurePropagates ==
    /\ [][(run.pc = "chat" /\ run'.chatCalls = run.chatCalls + 1
             /\ run'.pc \notin {"tools", "summarize"})
            => /\ run'.pc = "threw"
               /\ run'.messages = run.messages
               /\ run'.outcome = RunInit.outcome
               /\ run'.thrown = ""]_vars
    /\ [][run.pc = "threw" => run' = run]_vars
    /\ [](run.pc = "threw" => run.outcome.status = "none")

\* the second completion of a step failed, after the tool call of the first
\* one had been answered
SecondCompletionFailed ==
    /\ run.pc = "threw"
    /\ run.chatCalls = 2
    /\ run.toolCalls = 1
    /\ Len(run.messages) = 5
    /\ run.outcome.status = "none"

(***************************************************************************)
(* Properties of the pairing of turns in the retained log.                 *)
(***************************************************************************)
\* C37: in a log built by saves from the empty log, under every retention
\* size, every retained user turn stands right before the assistant turn
\* saved with it, so whenever a retained user turn's embedding reaches the
\* threshold for a query, findSimilarQuery returns a response, and that
\* response is a retained assistant turn
RetainedUserTurnsHaveResponses ==
    /\ \A i \in 1..Len(memory.history) :
          memory.history[i].role = "user"
             => /\ i < Len(memory.history)
                /\ memory.history[i + 1].role = "assistant"
                /\ memory.history[i + 1].id = memory.history[i].id
    /\ \A e \in EmbedOutcomes :
          (/\ e.given
           /\ memory.config.memoryCacheThreshold[1] > 0
           /\ \E i \in 1..Len(memory.history) :
                 /\ memory.history[i].role = "user"
                 /\ memory.history[i].embedding.given
                 /\ ~BelowThreshold(
                        cosineSimilarity(e.vec, memory.history[i].embedding.vec),
                        memory.config.memoryCacheThreshold))
            => LET cached == findSimilarQuery(memory, e)
               IN  /\ cached.found
                   /\ \E k \in 1..Len(memory.history) :
                         /\ memory.history[k].role = "assistant"
                         /\ memory.history[k].id = cached.response

\* under a retention size of three the log of three saves begins with the
\* answer of the second save, whose query was dropped, and ends with the
\* third save's pair
OddRetentionKeepsLastPair ==
    /\ memory.config.historyRetentionSize = 3
    /\ memory.appended = 3
    /\ Len(memory.history) = 3
    /\ memory.history[1].role = "assistant"
    /\ memory.history[1].id = 2
    /\ memory.history[2] = Turn("user", 3, 1, [given |-> TRUE, vec |-> <<1, 0>>])
    /\ memory.history[3].role = "assistant"
    /\ memory.history[3].id = 3

(***************************************************************************)
(* Properties of reconstruction as a regrouping of the hits.               *)
(***************************************************************************)
\* {path, className, methodName} of a hit
KeyOf(hit) == <<hit.path, hit.className, hit.methodName>>

\* the position in the hit list at which the key of hit h occurs first
FirstOccurrence(hits, h) ==
    CHOOSE i \in 1..Len(hits) :
        /\ KeyOf(hits[i]) = KeyOf(h)
        /\ \A j \in 1..(i - 1) : KeyOf(hits[j]) # KeyOf(h)

\* the chunk ids joined by "+" in the chunk id of an output hit: the ids of
\* the input hits are one character long, so they stand at the odd places
JoinedIds(chunkId) ==
    [n \in 1..((Len(chunkId) + 1) \div 2) |-> <<chunkId[2 * n - 1]>>]

\* C38: reconstruction loses and duplicates nothing: the chunk id of every
\* input hit occurs in exactly one output hit, and once in it; there are as
\* many output hits as distinct {path, className, methodName} keys among the
\* input hits; and the output hits stand in the order in which their keys
\* occur first in the input
ReconstructionRegroups ==
    recon.pc \in {"once", "twice"}
        => /\ \A i \in 1..Len(recon.hits) :
                 \E g \in 1..Len(recon.once) :
                    /\ Cardinality({n \in DOMAIN JoinedIds(recon.once[g].chunkId) :
                          JoinedIds(recon.once[g].chunkId)[n]
                             = recon.hits[i].chunkId}) = 1
                    /\ \A o \in 1..Len(recon.once) :
                          o # g => \A n \in DOMAIN JoinedIds(recon.once[o].chunkId) :
                             JoinedIds(recon.once[o].chunkId)[n]
                                # recon.hits[i].chunkId
           /\ Len(recon.once)
                 = Cardinality({KeyOf(recon.hits[i]) : i \in 1..Len(recon.hits)})
           /\ \A g \in 1..Len(recon.once) :
                 \E i \in 1..Len(recon.hits) :
                    KeyOf(recon.hits[i]) = KeyOf(recon.once[g])
           /\ \A g, o \in 1..Len(recon.once) :
                 g < o => FirstOccurrence(recon.hits, recon.once[g])
                            < FirstOccurrence(recon.hits, recon.once[o])

\* of three hits the first and the third are fragments of one method: two
\* hits come out, the merged one first
TwoGroupsOfThreeHits ==
    /\ recon.pc = "once"
    /\ Len(recon.hits) = 3
    /\ KeyOf(recon.hits[1]) = KeyOf(recon.hits[3])
    /\ KeyOf(recon.hits[2]) # KeyOf(recon.hits[1])
    /\ Len(recon.once) = 2
    /\ recon.once[1].chunkId = <<1, "+", 3>>
    /\ recon.once[2].chunkId = <<2>>

====
